---------------------------- MODULE Spec2Model ----------------------------
(***************************************************************************)
(* A model of elasticutils (src/elasticutils/__init__.py): the filter      *)
(* algebra F, the lazy search builder S, the compiler S._build_query, the  *)
(* executor S.raw / S._do_search and the SearchResults family.             *)
(*                                                                         *)
(* Python objects that are mutable and can be shared (dicts, lists) live   *)
(* in heaps indexed by address, so that aliasing is visible.               *)
(*                                                                         *)
(* A keyword-argument key such as price__gte is the string itself; _split  *)
(* cuts it at its last '__'.                                               *)
(***************************************************************************)
EXTENDS Integers, Sequences, FiniteSets, TLC

VARIABLES
    fheap,      \* the filter dicts of all F objects: address -> dict
    fobjs,      \* the F objects created so far: index -> [filters |-> address]
    flast,      \* what the last F operation was, and its operands before it ran
    builders,   \* the S objects created so far: index -> the object's attributes
    steplists,  \* the step lists S objects refer to: address -> list of steps
    boostmaps,  \* the field_boosts dicts S objects refer to: address -> dict
    nsearch,    \* per S object, the responses es.search returned to its _do_search
    local,      \* _local: per thread, whether _es_queries is set, and the list
    debug,      \* settings.DEBUG when the module was imported
    hashorder,  \* the order in which this build iterates a set of field names
    last,       \* what the last S operation was, and what it did
    field,      \* the search field: the call that made it, and the object
    fieldop     \* what the last operation on the field was, and what it did

fvars == <<fheap, fobjs, flast>>

svars == <<builders, steplists, boostmaps, nsearch, local, debug, hashorder, last>>

fieldvars == <<field, fieldop>>

vars == <<fheap, fobjs, flast, builders, steplists, boostmaps, nsearch, local,
          debug, hashorder, last, field, fieldop>>

-----------------------------------------------------------------------------
(* Bounds *)

\* F objects created in one behaviour
MaxF == 4
\* S objects created in one behaviour
MaxBuilders == 3
\* documents the backend holds at most
MaxHits == 1
\* responses one S object's _do_search receives in one behaviour
MaxSearches == 2
\* entries of one thread's _es_queries
MaxLog == 2

-----------------------------------------------------------------------------
(* Helpers *)

Range(s) == {s[i] : i \in 1..Len(s)}

\* A Python dict with string keys is a function with a domain of strings; the
\* empty dict is the function with the empty domain.
EmptyDict == <<>>

\* {k: v}
Dict1(k, v) == k :> v

\* None where a string is expected. No field action equals it: the part after
\* the last '__' of a key holds no '__'.
None == "__None__"

-----------------------------------------------------------------------------
(* Field keys and filters (module level) *)

\* The start positions of '__' in s.
DelimiterPositions(s) == {i \in 1..(Len(s) - 1) : SubSeq(s, i, i + 1) = "__"}

Max(S) == CHOOSE m \in S : \A n \in S : n <= m

\* _split: s.rsplit('__', 1) when s holds '__', else (s, None).
_split(s) ==
    IF DelimiterPositions(s) # {}
    THEN LET i == Max(DelimiterPositions(s))
         IN  <<SubSeq(s, 1, i - 1), SubSeq(s, i + 2, Len(s))>>
    ELSE <<s, None>>

\* A filter item is either an F, [isF |-> TRUE, filters |-> dict], or a
\* (key, val) pair, [isF |-> FALSE, key |-> string, val |-> value]; the val of
\* an 'or_' key is the item sequence of its mapping.

RangeActions == {"gt", "gte", "lt", "lte"}

\* One (key, val) pair that is not 'or_': the filter it compiles to, or the
\* InvalidFieldActionError it raises.
FilterOfPair(key, field_action, val) ==
    IF field_action = None THEN [ok |-> TRUE, doc |-> [term |-> Dict1(key, val)]]
    ELSE IF field_action = "in" THEN [ok |-> TRUE, doc |-> [in |-> Dict1(key, val)]]
    ELSE IF field_action \in RangeActions
    THEN [ok |-> TRUE, doc |-> [range |-> Dict1(key, Dict1(field_action, val))]]
    ELSE [ok |-> FALSE, error |-> "InvalidFieldActionError", action |-> field_action]

\* _process_filters: [ok |-> TRUE, rv |-> the list of filter dicts], or
\* [ok |-> FALSE, error, action] when a pair raises.
RECURSIVE _process_filters(_)
_process_filters(filters) ==
    IF filters = <<>> THEN [ok |-> TRUE, rv |-> <<>>]
    ELSE
      LET f    == Head(filters)
          this ==
            IF f.isF
            THEN [ok |-> TRUE,
                  rv |-> IF DOMAIN f.filters # {} THEN <<f.filters>> ELSE <<>>]
            ELSE LET sp == _split(f.key)
                 IN  IF sp[1] = "or_"
                     THEN LET sub == _process_filters(f.val)
                          IN  IF sub.ok
                              THEN [ok |-> TRUE, rv |-> <<[or |-> sub.rv]>>]
                              ELSE sub
                     ELSE LET one == FilterOfPair(sp[1], sp[2], f.val)
                          IN  IF one.ok
                              THEN [ok |-> TRUE, rv |-> <<one.doc>>]
                              ELSE one
      IN  IF ~this.ok THEN this
          ELSE LET rest == _process_filters(Tail(filters))
               IN  IF rest.ok
                   THEN [ok |-> TRUE, rv |-> this.rv \o rest.rv]
                   ELSE rest

Pair(k, v) == [isF |-> FALSE, key |-> k, val |-> v]

-----------------------------------------------------------------------------
(* class F.  An F object holds a reference to its filters dict; the dicts
   live in fheap.  A dict in fheap is one of
       {}                              EmptyDict
       {'and': [...]}, {'or': [...]}   its list holds the addresses of the operands
       {'not': {'filter': d}}          holding the address of d
       a leaf: {'term': ...}, {'in': ...}, {'range': ...}                   *)

\* The filter document at address a, as the value a caller reads; a cyclic
\* reference is read as {'cycle': ...} once the heap's size is exhausted.
RECURSIVE Deref(_, _, _)
Deref(heap, a, fuel) ==
    LET d == heap[a] IN
    IF fuel = 0 THEN [cycle |-> a]
    ELSE IF "and" \in DOMAIN d
    THEN [and |-> [i \in 1..Len(d["and"]) |-> Deref(heap, d["and"][i], fuel - 1)]]
    ELSE IF "or" \in DOMAIN d
    THEN [or |-> [i \in 1..Len(d["or"]) |-> Deref(heap, d["or"][i], fuel - 1)]]
    ELSE IF "not" \in DOMAIN d
    THEN [not |-> [filter |-> Deref(heap, d["not"].filter, fuel - 1)]]
    ELSE d

\* A fresh filter dict, as _process_filters returns it, placed in the heap:
\* <<the heap, the dict's address>>.
RECURSIVE Alloc(_, _)
RECURSIVE AllocAll(_, _)
AllocAll(heap, docs) ==
    IF docs = <<>> THEN <<heap, <<>> >>
    ELSE LET one  == Alloc(heap, Head(docs))
             rest == AllocAll(one[1], Tail(docs))
         IN  <<rest[1], <<one[2]>> \o rest[2]>>

Alloc(heap, doc) ==
    IF "or" \in DOMAIN doc
    THEN LET ops == AllocAll(heap, doc["or"])
         IN  <<Append(ops[1], [or |-> ops[2]]), Len(ops[1]) + 1>>
    ELSE <<Append(heap, doc), Len(heap) + 1>>

\* The document of the i-th F object.
FDoc(i) == Deref(fheap, fobjs[i].filters, Len(fheap) + 1)

\* The keyword arguments F is constructed with, as filters.items() lists them.
FKwargs ==
    { <<>>,
      <<Pair("a", 1)>>,
      <<Pair("b__gte", 2)>>,
      <<Pair("a", 1), Pair("b__gte", 2)>>,
      <<Pair("c__in", 3), Pair("a", 1)>>,
      <<Pair("or_", <<Pair("a", 1), Pair("c__in", 3)>>)>>,
      <<Pair("a__foo", 1)>> }

\* F.__init__(**filters)
FInit(filters) ==
    /\ Len(fobjs) < MaxF
    /\ UNCHANGED <<svars, fieldvars>>
    /\ IF filters # <<>>
       THEN LET items == _process_filters(filters) IN
            IF ~items.ok
            THEN /\ flast' = [op |-> "F", raised |-> items.error, action |-> items.action,
                            kw |-> filters]
                 /\ UNCHANGED <<fheap, fobjs, fieldvars>>
            ELSE LET al == AllocAll(fheap, items.rv) IN
                 IF Len(items.rv) > 1
                 THEN /\ fheap' = Append(al[1], [and |-> al[2]])
                      /\ fobjs' = Append(fobjs, [filters |-> Len(al[1]) + 1])
                      /\ flast' = [op |-> "F", raised |-> None, r |-> Len(fobjs) + 1, kw |-> filters]
                 ELSE /\ fheap' = al[1]
                      /\ fobjs' = Append(fobjs, [filters |-> al[2][1]])
                      /\ flast' = [op |-> "F", raised |-> None, r |-> Len(fobjs) + 1, kw |-> filters]
       ELSE /\ fheap' = Append(fheap, EmptyDict)
            /\ fobjs' = Append(fobjs, [filters |-> Len(fheap) + 1])
            /\ flast' = [op |-> "F", raised |-> None, r |-> Len(fobjs) + 1, kw |-> filters]

\* What _combine and __invert__ leave in flast: the operator, the operands,
\* the result, and the operands' documents before the call.
FCall(op, a, b) ==
    [op |-> op, raised |-> None, a |-> a, b |-> b, r |-> Len(fobjs) + 1,
     da |-> FDoc(a), db |-> FDoc(b)]

\* F._combine(self, other, conn): the new heap and the address f.filters is set to
CombineHeap(heap, self, other, conn) ==
    IF DOMAIN heap[self] = {} THEN <<heap, other>>
    ELSE IF DOMAIN heap[other] = {} THEN <<heap, self>>
    ELSE IF conn \in DOMAIN heap[self]
    THEN <<[heap EXCEPT ![self] = Dict1(conn, Append(heap[self][conn], other))], self>>
    ELSE IF conn \in DOMAIN heap[other]
    THEN <<[heap EXCEPT ![other] = Dict1(conn, Append(heap[other][conn], self))], other>>
    ELSE <<Append(heap, Dict1(conn, <<self, other>>)), Len(heap) + 1>>

_combine(a, b, conn) ==
    /\ Len(fobjs) < MaxF
    /\ LET c == CombineHeap(fheap, fobjs[a].filters, fobjs[b].filters, conn) IN
       /\ fheap' = c[1]
       /\ fobjs' = Append(fobjs, [filters |-> c[2]])
    /\ flast' = FCall(conn, a, b)
    /\ UNCHANGED <<svars, fieldvars>>

\* F.__and__
F__and__(a, b) == _combine(a, b, "and")

\* F.__or__
F__or__(a, b) == _combine(a, b, "or")

\* ~a, were the filters always wrapped in {'not': {'filter': ...}}
WrapInNot(a) ==
    /\ Len(fobjs) < MaxF
    /\ fheap' = Append(fheap, [not |-> [filter |-> fobjs[a].filters]])
    /\ fobjs' = Append(fobjs, [filters |-> Len(fheap) + 1])
    /\ flast' = FCall("not", a, a)
    /\ UNCHANGED <<svars, fieldvars>>

\* F.__invert__
F__invert__(a) ==
    /\ Len(fobjs) < MaxF
    /\ LET d == fheap[fobjs[a].filters] IN
       IF Cardinality(DOMAIN d) < 2 /\ "not" \in DOMAIN d /\ "filter" \in DOMAIN d["not"]
       THEN /\ fheap' = fheap
            /\ fobjs' = Append(fobjs, [filters |-> d["not"].filter])
       ELSE /\ fheap' = Append(fheap, [not |-> [filter |-> fobjs[a].filters]])
            /\ fobjs' = Append(fobjs, [filters |-> Len(fheap) + 1])
    /\ flast' = FCall("not", a, a)
    /\ UNCHANGED <<svars, fieldvars>>

\* No F object yet
FInitState ==
    /\ fheap = <<>>
    /\ fobjs = <<>>
    /\ flast = [op |-> "none", raised |-> None]

FNext ==
    \/ \E filters \in FKwargs : FInit(filters)
    \/ \E a, b \in 1..Len(fobjs) : F__and__(a, b)
    \/ \E a, b \in 1..Len(fobjs) : F__or__(a, b)
    \/ \E a \in 1..Len(fobjs) : F__invert__(a)

\* F_SInit, the S side of the initial state, is defined with class S below.

-----------------------------------------------------------------------------
(* The compiler: S._process_queries, _process_facets, S._build_query.

   A step is [action |-> name, value |-> payload], the (action, value) tuple
   the chaining methods record.  An optional number (a boost, or None) is a
   sequence of length at most one.                                          *)

NoBoost == <<>>

\* _boosted_value
_boosted_value(name, action, key, value, boost) ==
    IF boost # NoBoost
    THEN Dict1(name, ("boost" :> boost[1])
                     @@ ((IF action = "text" THEN "query" ELSE "value") :> value))
    ELSE Dict1(name, value)

\* ACTION_MAP
ACTION_MAP ==
    (None :> "term")
    @@ [in |-> "in", term |-> "term", startswith |-> "prefix", prefix |-> "prefix",
        text |-> "text", text_phrase |-> "text_phrase", fuzzy |-> "fuzzy"]

\* The boost lookup, were the entry of name looked up before that of
\* name__action
BoostForName(field_boosts, key, field_name) ==
    IF field_name \in DOMAIN field_boosts THEN <<field_boosts[field_name]>>
    ELSE IF key \in DOMAIN field_boosts THEN <<field_boosts[key]>>
    ELSE NoBoost

\* The boost lookup of _process_queries: the entry of name__action overrides
\* the entry of name.
BoostFor(field_boosts, key, field_name) ==
    IF key \in DOMAIN field_boosts THEN <<field_boosts[key]>>
    ELSE IF field_name \in DOMAIN field_boosts THEN <<field_boosts[field_name]>>
    ELSE NoBoost

\* The body of the loop of _process_queries for one (key, val)
QueryOfPair(field_boosts, key, val) ==
    LET field_name   == _split(key)[1]
        field_action == _split(key)[2]
        boost        == BoostFor(field_boosts, key, field_name)
    IN  IF field_action \in DOMAIN ACTION_MAP
        THEN [ok |-> TRUE,
              doc |-> Dict1(ACTION_MAP[field_action],
                            _boosted_value(field_name, field_action, key, val, boost))]
        ELSE IF field_action = "query_string"
        THEN [ok |-> TRUE,
              doc |-> [query_string |-> [default_field |-> field_name, query |-> val]]]
        ELSE IF field_action \in RangeActions
        THEN [ok |-> TRUE,
              doc |-> [range |-> Dict1(field_name,
                            _boosted_value(field_name, field_action, key, val, boost))]]
        ELSE [ok |-> FALSE, error |-> "InvalidFieldActionError", action |-> field_action]

\* S._process_queries(value): value is the item list of a mapping.  The items
\* other than 'or_' are compiled in the order listed, then the 'or_' mapping.
RECURSIVE _process_queries(_, _)
RECURSIVE QueriesOfPairs(_, _)
QueriesOfPairs(field_boosts, items) ==
    IF items = <<>> THEN [ok |-> TRUE, rv |-> <<>>]
    ELSE LET one == QueryOfPair(field_boosts, Head(items).key, Head(items).val)
         IN  IF ~one.ok THEN one
             ELSE LET rest == QueriesOfPairs(field_boosts, Tail(items))
                  IN  IF rest.ok THEN [ok |-> TRUE, rv |-> <<one.doc>> \o rest.rv]
                      ELSE rest

_process_queries(field_boosts, value) ==
    LET isOr(it) == it.key = "or_"
        notOr(it) == it.key # "or_"
        ors  == SelectSeq(value, isOr)
        or_  == IF ors = <<>> THEN <<>> ELSE ors[1].val
        rv   == QueriesOfPairs(field_boosts, SelectSeq(value, notOr))
    IN  IF ~rv.ok THEN rv
        ELSE IF or_ # <<>>
        THEN LET sub == _process_queries(field_boosts, or_)
             IN  IF sub.ok
                 THEN [ok |-> TRUE, rv |-> Append(rv.rv, [bool |-> [should |-> sub.rv]])]
                 ELSE sub
        ELSE rv

\* flags.get(name) is truthy
FlagSet(flags, name) == name \in DOMAIN flags /\ flags[name]

\* _process_facets(facets, flags)
_process_facets(facets, flags) ==
    [fieldname \in Range(facets) |->
        [terms |-> [field |-> fieldname]]
        @@ (IF FlagSet(flags, "global_") THEN "global" :> TRUE
            ELSE IF FlagSet(flags, "filtered") THEN "facet_filter" :> None
            ELSE EmptyDict)]

\* The iteration order of a set of field names: the order the build's hashing
\* gives, order being a sequence that lists every field name once.
ListOf(set, order) == LET in(x) == x \in set IN SelectSeq(order, in)

\* S._build_highlight
_build_highlight(fields, options) ==
    options @@ [fields |-> [f \in fields |-> EmptyDict], order |-> "score"]

\* The local variables of _build_query before its loop
BuildLocals ==
    [filters |-> <<>>, queries |-> <<>>, sort |-> <<>>, fields |-> {"id"},
     facets |-> EmptyDict, facets_raw |-> EmptyDict, demote |-> <<>>,
     highlight_fields |-> {}, highlight_options |-> EmptyDict,
     explain |-> FALSE, as_list |-> FALSE, as_dict |-> FALSE, raised |-> None]

\* One key of order_by
SortKey(key) ==
    IF Len(key) >= 1 /\ SubSeq(key, 1, 1) = "-"
    THEN Dict1(SubSeq(key, 2, Len(key)), "desc")
    ELSE key

Raise(l, e) == [l EXCEPT !.raised = e]

\* a list after it was replaced by another
assign(list_, more) == more

\* list.extend(more)
extend(list_, more) == list_ \o more

\* highlight_fields after a highlight step, were (None,) a field list like
\* any other
AddHighlightedFields(highlight_fields, fields) == highlight_fields \cup Range(fields)

\* highlight_fields after a highlight step with these fields
HighlightedFields(highlight_fields, fields) ==
    IF fields = <<None>> THEN {} ELSE highlight_fields \cup Range(fields)

\* One iteration of the loop of _build_query
BuildStep(l, action, value, field_boosts) ==
    IF action = "order_by"
    THEN [l EXCEPT !.sort = [i \in 1..Len(value) |-> SortKey(value[i])]]
    ELSE IF action = "values_list"
    THEN [l EXCEPT !.fields = @ \cup Range(value), !.as_list = TRUE, !.as_dict = FALSE]
    ELSE IF action = "values_dict"
    THEN [l EXCEPT !.fields = IF value = <<>> THEN {} ELSE @ \cup Range(value),
                   !.as_list = FALSE, !.as_dict = TRUE]
    ELSE IF action = "explain"
    THEN [l EXCEPT !.explain = value]
    ELSE IF action = "query"
    THEN LET q == _process_queries(field_boosts, value)
         IN  IF q.ok THEN [l EXCEPT !.queries = @ \o q.rv] ELSE Raise(l, q.error)
    ELSE IF action = "demote"
    THEN LET q == _process_queries(field_boosts, value.kw)
         IN  IF q.ok THEN [l EXCEPT !.demote = <<[amount |-> value.amount, negative |-> q.rv]>>]
             ELSE Raise(l, q.error)
    ELSE IF action = "filter"
    THEN LET f == _process_filters(value)
         IN  IF f.ok THEN [l EXCEPT !.filters = extend(@, f.rv)] ELSE Raise(l, f.error)
    ELSE IF action = "facet"
    THEN [l EXCEPT !.facets = _process_facets(value.args, value.kw) @@ @]
    ELSE IF action = "facet_raw"
    THEN [l EXCEPT !.facets_raw = value @@ @]
    ELSE IF action = "highlight"
    THEN [l EXCEPT !.highlight_fields = HighlightedFields(@, value.fields),
                   !.highlight_options = value.kw @@ @]
    ELSE IF action \in {"es_builder", "es", "indexes", "doctypes", "boost"}
    THEN l
    ELSE Raise(l, "NotImplementedError")

RECURSIVE BuildLoop(_, _, _, _)
BuildLoop(l, steps, i, field_boosts) ==
    IF i > Len(steps) \/ l.raised # None THEN l
    ELSE BuildLoop(BuildStep(l, steps[i].action, steps[i].value, field_boosts),
                   steps, i + 1, field_boosts)

\* Some facet of facets is a facet_filter shell
HasShell(facets) == \E n \in DOMAIN facets : "facet_filter" \in DOMAIN facets[n]

\* The part of _build_query after its loop, l being the local variables the
\* loop left: the query dict is assembled.
BuildDict(l, start, stop, order) ==
    LET qfilter == IF Len(l.filters) > 1 THEN [filter |-> [and |-> l.filters]]
                   ELSE IF l.filters # <<>> THEN [filter |-> l.filters[1]]
                   ELSE EmptyDict
        query0  == IF Len(l.queries) > 1 THEN [query |-> [bool |-> [must |-> l.queries]]]
                   ELSE IF l.queries # <<>> THEN [query |-> l.queries[1]]
                   ELSE EmptyDict
        qquery  == IF l.demote # <<>> /\ "query" \in DOMAIN query0
                   THEN [query |-> [boosting |->
                            [positive |-> query0.query,
                             negative |-> l.demote[1].negative,
                             negative_boost |-> l.demote[1].amount]]]
                   ELSE query0
        qfields == IF l.fields # {} THEN [fields |-> ListOf(l.fields, order)]
                   ELSE EmptyDict
        filled  == [n \in DOMAIN l.facets |->
                      IF "facet_filter" \in DOMAIN l.facets[n]
                      THEN [l.facets[n] EXCEPT !["facet_filter"] = qfilter.filter]
                      ELSE l.facets[n]]
        qfacets == IF DOMAIN l.facets # {} \/ DOMAIN l.facets_raw # {}
                   THEN [facets |-> l.facets_raw @@ filled]
                   ELSE EmptyDict
        qsort   == IF l.sort # <<>> THEN [sort |-> l.sort] ELSE EmptyDict
        qfrom   == IF start # 0 THEN [from |-> start] ELSE EmptyDict
        qsize   == IF stop # <<>> THEN [size |-> stop[1] - start] ELSE EmptyDict
        qhigh   == IF l.highlight_fields # {}
                   THEN [highlight |-> _build_highlight(l.highlight_fields,
                                                        l.highlight_options)]
                   ELSE EmptyDict
        qexpl   == IF l.explain THEN [explain |-> TRUE] ELSE EmptyDict
    IN  IF l.raised # None THEN [raised |-> l.raised]
        ELSE IF l.demote # <<>> /\ "query" \notin DOMAIN query0
        THEN [raised |-> "KeyError"]
        ELSE IF HasShell(l.facets) /\ "filter" \notin DOMAIN qfilter
        THEN [raised |-> "KeyError"]
        ELSE [raised |-> None,
              qs |-> qfilter @@ qquery @@ qfields @@ qfacets @@ qsort @@ qfrom
                     @@ qsize @@ qhigh @@ qexpl,
              fields |-> ListOf(l.fields, order),
              as_list |-> l.as_list, as_dict |-> l.as_dict]

\* S._build_query, on a builder with these steps, start, stop and field_boosts:
\* [raised |-> None, qs |-> the query dict, fields, as_list, as_dict] with the
\* attributes it sets on the builder (fields in iteration order), or
\* [raised |-> the error].
_build_query(steps, start, stop, field_boosts, order) ==
    BuildDict(BuildLoop(BuildLocals, steps, 1, field_boosts), start, stop, order)

-----------------------------------------------------------------------------
(* class S: construction and the chaining methods.

   An S object is a record of its attributes; steps and field_boosts are
   references into steplists and boostmaps.  An optional value (stop,
   _results_cache) is a sequence of length at most one, None being <<>>.    *)

\* the thread that imported the module
MainThread == "main"

\* a thread started later: the module never gave it a query log
WorkerThread == "worker"

Threads == {MainThread, WorkerThread}

\* the heap as one value
Heap == [builders |-> builders, steplists |-> steplists, boostmaps |-> boostmaps]

SetHeap(h) ==
    /\ builders' = h.builders
    /\ steplists' = h.steplists
    /\ boostmaps' = h.boostmaps

\* S.__init__(type_), its steps and field_boosts at the given addresses.  The
\* attribute fields is not set before _build_query sets it; it reads <<>> here.
NewS(type_, steps, field_boosts) ==
    [type |-> type_, steps |-> steps, start |-> 0, stop |-> <<>>,
     as_list |-> FALSE, as_dict |-> FALSE, field_boosts |-> field_boosts,
     fields |-> <<>>, _results_cache |-> <<>>]

\* self.steps itself, not a copy of it: <<the heap, the address>>
ShareSteps(h, a) == <<h, a>>

\* list(self.steps): <<the heap, the address of the copy>>
CopySteps(h, a) ==
    <<[h EXCEPT !.steplists = Append(@, h.steplists[a])], Len(h.steplists) + 1>>

\* self.field_boosts.copy(): <<the heap, the address of the copy>>
CopyBoosts(h, a) ==
    <<[h EXCEPT !.boostmaps = Append(@, h.boostmaps[a])], Len(h.boostmaps) + 1>>

\* new.steps.append(step) for every step of a sequence, in order
AppendSteps(h, new, more) ==
    [h EXCEPT !.steplists[h.builders[new].steps] = @ \o more]

\* S._clone(next_step): the heap with the new S object as its last builder.
\* next_step is <<>> (None) or <<step>>.
_clone(h, self, next_step) ==
    LET me == h.builders[self]
        c1 == CopySteps(h, me.steps)
        h1 == [c1[1] EXCEPT !.steplists[c1[2]] = @ \o next_step]
        c2 == CopyBoosts(h1, me.field_boosts)
        new == [NewS(me.type, c1[2], c2[2]) EXCEPT !.start = me.start, !.stop = me.stop]
    IN  [c2[1] EXCEPT !.builders = Append(@, new)]

Step(action, value) == [action |-> action, value |-> value]

\* What a chaining call leaves in last: the method, the receiver, the result.
Chained(op, self) ==
    [op |-> op, self |-> self, r |-> Len(builders) + 1, raised |-> None]

\* The methods that are  return self._clone(next_step=(action, value))
Chain(self, action, value) ==
    /\ Len(builders) < MaxBuilders
    /\ SetHeap(_clone(Heap, self, <<Step(action, value)>>))
    /\ nsearch' = Append(nsearch, 0)
    /\ last' = Chained(action, self)
    /\ UNCHANGED <<local, debug, hashorder>>
    /\ UNCHANGED <<fvars, fieldvars>>

\* what the chaining methods leave in last.op
ChainingMethods ==
    {"es", "es_builder", "indexes", "doctypes", "explain", "values_list",
     "values_dict", "order_by", "query", "filter", "boost", "demote", "facet",
     "facet_raw", "highlight", "extra", "slice"}

\* S.es(**settings)
es(self, settings) == Chain(self, "es", settings)

\* S.es_builder(builder_function)
es_builder(self, builder_function) == Chain(self, "es_builder", builder_function)

\* S.indexes(*indexes)
indexes(self, ixs) == Chain(self, "indexes", ixs)

\* S.doctypes(*doctypes)
doctypes(self, dts) == Chain(self, "doctypes", dts)

\* S.explain(value=True)
explain(self, value) == Chain(self, "explain", value)

\* S.values_list(*fields)
values_list(self, fields) == Chain(self, "values_list", fields)

\* S.values_dict(*fields)
values_dict(self, fields) == Chain(self, "values_dict", fields)

\* S.order_by(*fields)
order_by(self, fields) == Chain(self, "order_by", fields)

\* S.query(**kw): kw is given as kw.items() lists it
query(self, kw) == Chain(self, "query", kw)

\* S.filter(*filters, **kw): list(filters) + kw.items()
filter(self, filters, kw) == Chain(self, "filter", filters \o kw)

\* kw.items() for the keyword arguments of a call, kw listing them as the
\* call does: the pairs in the order the build iterates a dict of these keys
kw_items(kw, order) ==
    LET named(k) == \E i \in 1..Len(kw) : kw[i].key = k
        keys     == SelectSeq(order, named)
    IN  [i \in 1..Len(keys) |-> kw[CHOOSE j \in 1..Len(kw) : kw[j].key = keys[i]]]

\* S.filter(*filters, **kw) as it is called, the keyword arguments in the
\* order of the call
S_filter(self, filters, kw) == filter(self, filters, kw_items(kw, hashorder))

\* S.demote(amount_, **kw)
demote(self, amount_, kw) == Chain(self, "demote", [amount |-> amount_, kw |-> kw])

\* S.facet(*args, **kw)
facet(self, args, kw) == Chain(self, "facet", [args |-> args, kw |-> kw])

\* S.facet_raw(**kw): the step holds kw.items(), read back with dict(value)
facet_raw(self, kw) == Chain(self, "facet_raw", kw)

\* S.highlight(*fields, **kwargs)
highlight(self, fields, kwargs) ==
    Chain(self, "highlight", [fields |-> fields, kw |-> kwargs])

\* S.boost(**kw): new = self._clone(); new.field_boosts.update(kw)
boost(self, kw) ==
    /\ Len(builders) < MaxBuilders
    /\ LET h   == _clone(Heap, self, <<>>)
           new == Len(h.builders)
       IN  SetHeap([h EXCEPT !.boostmaps[h.builders[new].field_boosts] = kw @@ @])
    /\ nsearch' = Append(nsearch, 0)
    /\ last' = Chained("boost", self)
    /\ UNCHANGED <<local, debug, hashorder>>
    /\ UNCHANGED <<fvars, fieldvars>>

\* S.extra(**kw): one step appended per key, in the order kw.items() lists
\* them; steps is that list, each a key of actions.
ExtraActions == {"values_list", "values_dict", "order_by", "query", "filter", "facet"}

extra(self, steps) ==
    /\ Len(builders) < MaxBuilders
    /\ \A i \in 1..Len(steps) : steps[i].action \in ExtraActions
    /\ LET h == _clone(Heap, self, <<>>)
       IN  SetHeap(AppendSteps(h, Len(h.builders), steps))
    /\ nsearch' = Append(nsearch, 0)
    /\ last' = Chained("extra", self)
    /\ UNCHANGED <<local, debug, hashorder>>
    /\ UNCHANGED <<fvars, fieldvars>>

\* s[k] for a slice k, were the window taken within the window of s
SliceWithin(self, k) ==
    /\ Len(builders) < MaxBuilders
    /\ LET h   == _clone(Heap, self, <<>>)
           new == Len(h.builders)
       IN  SetHeap([h EXCEPT !.builders[new].start =
                                 @ + (IF k.start = <<>> THEN 0 ELSE k.start[1]),
                             !.builders[new].stop = k.stop])
    /\ nsearch' = Append(nsearch, 0)
    /\ last' = Chained("slice", self) @@ [k |-> k]
    /\ UNCHANGED <<local, debug, hashorder>>
    /\ UNCHANGED <<fvars, fieldvars>>

\* S.__getitem__(k) for a slice k = slice(start, stop), either of them
\* possibly None
GetSlice(self, k) ==
    /\ Len(builders) < MaxBuilders
    /\ LET h   == _clone(Heap, self, <<>>)
           new == Len(h.builders)
       IN  SetHeap([h EXCEPT !.builders[new].start = IF k.start = <<>> THEN 0
                                                      ELSE k.start[1],
                             !.builders[new].stop = k.stop])
    /\ nsearch' = Append(nsearch, 0)
    /\ last' = Chained("slice", self) @@ [k |-> k]
    /\ UNCHANGED <<local, debug, hashorder>>
    /\ UNCHANGED <<fvars, fieldvars>>

-----------------------------------------------------------------------------
(* The backend and the domain-object storage, as S uses them.

   env is what they answer to one operation:
     [fail |-> es.search raises, total |-> the number of matching documents,
      found |-> the ids type.objects.filter(id__in=ids) finds]
   The matching documents are 1..total; document i holds Val(i, f) in field f. *)

\* every field name a document has, in the order its _source lists them
SourceOrder == <<"id", "a", "b">>

FieldNo(f) == CHOOSE i \in 1..Len(SourceOrder) : SourceOrder[i] = f

Val(i, f) == IF f = "id" THEN i ELSE 10 * i + FieldNo(f)

\* _id is a string; int(r['_id']) reads it back
Digits == <<"1", "2", "3", "4", "5", "6", "7", "8", "9">>

int(str) == CHOOSE i \in 1..Len(Digits) : Digits[i] = str

\* what hits['took'] reads
Took == 3

\* the size of a page when the request names none
DefaultSize == 10

\* The hit of document i: with its explanation when the request asks for
\* one, and its highlighted fragments when the request has a highlight clause
Hit(i, qs) ==
    [_id |-> Digits[i], _score |-> i, _type |-> "doc"]
    @@ (IF "fields" \in DOMAIN qs
        THEN [fields |-> [f \in Range(qs.fields) |-> Val(i, f)]]
        ELSE [_source |-> [f \in Range(SourceOrder) |-> Val(i, f)]])
    @@ (IF "explain" \in DOMAIN qs THEN [_explanation |-> [value |-> i]] ELSE EmptyDict)
    @@ (IF "highlight" \in DOMAIN qs
        THEN [highlight |-> [f \in DOMAIN qs.highlight.fields |-> <<Val(i, f)>>]]
        ELSE EmptyDict)

\* es.search(qs, indexes, doctypes) when it returns
Response(qs, total) ==
    LET from == IF "from" \in DOMAIN qs THEN qs.from ELSE 0
        size == IF "size" \in DOMAIN qs THEN qs.size ELSE DefaultSize
        n    == IF total - from < size THEN total - from ELSE size
    IN  [took |-> Took,
         hits |-> [total |-> total,
                   hits |-> [i \in 1..(IF n > 0 THEN n ELSE 0) |-> Hit(from + i, qs)]]]

\* the backend fails, or answers; the storage finds every id it is asked for
Envs ==
    {[fail |-> TRUE, total |-> 0, found |-> {}]}
    \cup {[fail |-> FALSE, total |-> n, found |-> 1..n] : n \in 0..MaxHits}

-----------------------------------------------------------------------------
(* The SearchResults family *)

\* _decorate_with_metadata(obj, hit)
_decorate_with_metadata(obj, hit) ==
    [obj |-> obj,
     _score |-> IF "_score" \in DOMAIN hit THEN <<hit._score>> ELSE <<>>,
     _type |-> IF "_type" \in DOMAIN hit THEN hit._type ELSE None,
     _explanation |-> IF "_explanation" \in DOMAIN hit THEN hit._explanation ELSE EmptyDict,
     _highlight |-> IF "highlight" \in DOMAIN hit THEN hit.highlight ELSE EmptyDict]

\* operator.itemgetter(*fields)(d): the item itself for one field, else a tuple
itemgetter(fields, d) ==
    IF Len(fields) = 1 THEN d[fields[1]]
    ELSE [i \in 1..Len(fields) |-> d[fields[i]]]

\* d.values() of a _source
SourceValues(d) == [i \in 1..Len(SourceOrder) |-> d[SourceOrder[i]]]

\* ListSearchResults.set_objects: the one obj of a hit r
ListObject(fields, r) ==
    IF fields # <<>>
    THEN IF Len(fields) = 1 THEN <<itemgetter(fields, r.fields)>>
         ELSE itemgetter(fields, r.fields)
    ELSE SourceValues(r._source)

\* set_objects of the three classes: the attributes it sets
set_objects(cls, fields, hits, found) ==
    IF cls = "ListSearchResults"
    THEN [objects |-> [i \in 1..Len(hits) |->
                          _decorate_with_metadata(ListObject(fields, hits[i]), hits[i])]]
    ELSE IF cls = "DictSearchResults"
    THEN [objects |-> [i \in 1..Len(hits) |->
                          _decorate_with_metadata(
                              IF fields # <<>> THEN hits[i].fields ELSE hits[i]._source,
                              hits[i])]]
    ELSE LET ids == [i \in 1..Len(hits) |-> int(hits[i]._id)]
         IN  [ids |-> ids, objects |-> {[id |-> n] : n \in Range(ids) \cap found}]

\* SearchResults.__init__(type, results, fields)
SearchResults(cls, type, results, fields, found) ==
    [cls |-> cls, type |-> type, took |-> results.took,
     count |-> results.hits.total, results |-> results, fields |-> fields]
    @@ set_objects(cls, fields, results.hits.hits, found)

\* SearchResults.__len__
ResultsLen(r) ==
    IF r.cls = "ObjectSearchResults" THEN Cardinality(r.objects) ELSE Len(r.objects)

\* Iteration, were every hit yielded whether or not its object was found
IterEveryHit(r) ==
    IF r.cls = "ObjectSearchResults"
    THEN [k \in 1..Len(r.ids) |->
             _decorate_with_metadata([id |-> r.ids[k]], r.results.hits.hits[k])]
    ELSE r.objects

\* SearchResults.__iter__, ObjectSearchResults.__iter__: what iteration yields
ResultsIter(r) ==
    IF r.cls = "ObjectSearchResults"
    THEN LET hits  == r.results.hits.hits
             inObjs(i) == [id |-> r.ids[i]] \in r.objects
             keep  == SelectSeq([i \in 1..Len(r.ids) |-> i], inObjs)
         IN  [k \in 1..Len(keep) |->
                 _decorate_with_metadata([id |-> r.ids[keep[k]]], hits[keep[k]])]
    ELSE r.objects

-----------------------------------------------------------------------------
(* The executor: get_es, raw, _do_search and the operations that trigger them.

   These are functions of the world w = the heap with nsearch and local,
   so that an operation can run them on an S object it made itself.         *)

World ==
    [builders |-> builders, steplists |-> steplists, boostmaps |-> boostmaps,
     nsearch |-> nsearch, local |-> local]

SetWorld(w) ==
    /\ builders' = w.builders
    /\ steplists' = w.steplists
    /\ boostmaps' = w.boostmaps
    /\ nsearch' = w.nsearch
    /\ local' = w.local

DEFAULT_DOCTYPES == None
DEFAULT_INDEXES == "default"

\* the last step with one of these actions, 0 when there is none
LastStep(steps, actions) ==
    LET at == {i \in 1..Len(steps) : steps[i].action \in actions}
    IN  IF at = {} THEN 0 ELSE Max(at)

\* S.get_es: which ES the search runs on
get_es(steps) ==
    LET i == LastStep(steps, {"es_builder", "es"})
    IN  IF i = 0 THEN [via |-> "default_builder"]
        ELSE IF steps[i].action = "es_builder"
        THEN [via |-> "es_builder", function |-> steps[i].value]
        ELSE [via |-> "get_es", settings |-> steps[i].value]

\* S.get_indexes
get_indexes(steps) ==
    LET i == LastStep(steps, {"indexes"})
    IN  IF i = 0 THEN DEFAULT_INDEXES ELSE steps[i].value

\* S.get_doctypes
get_doctypes(steps) ==
    LET i == LastStep(steps, {"doctypes"})
    IN  IF i = 0 THEN DEFAULT_DOCTYPES ELSE steps[i].value

\* The part of raw() after _build_query returned b: the search is sent and,
\* when the thread has a query log, logged.
Search(w, self, t, env, b) ==
    LET steps == w.steplists[w.builders[self].steps]
        w1    == [w EXCEPT !.builders[self].fields = b.fields,
                           !.builders[self].as_list = b.as_list,
                           !.builders[self].as_dict = b.as_dict]
        call  == [qs |-> b.qs, es |-> get_es(steps), indexes |-> get_indexes(steps),
                  doctypes |-> get_doctypes(steps)]
        hits  == Response(b.qs, env.total)
    IN  IF b.raised # None
        THEN [w |-> w, raised |-> b.raised, sent |-> <<>>, response |-> <<>>,
              logged |-> FALSE]
        ELSE IF env.fail
        THEN [w |-> w1, raised |-> "BackendError", sent |-> <<call>>, response |-> <<>>,
              logged |-> FALSE]
        ELSE IF ~debug
        THEN \* _local is not defined: hasattr(_local, ...) raises
             [w |-> w1, raised |-> "NameError", sent |-> <<call>>, response |-> <<hits>>,
              logged |-> FALSE]
        ELSE IF w1.local[t].has
        THEN [w |-> [w1 EXCEPT !.local[t].queries =
                                   Append(@, [query |-> b.qs, time |-> hits.took])],
              raised |-> None, sent |-> <<call>>, response |-> <<hits>>, logged |-> TRUE]
        ELSE [w |-> w1, raised |-> None, sent |-> <<call>>, response |-> <<hits>>,
              logged |-> FALSE]

\* S.raw() called by thread t:
\*   [w |-> the world after it, raised |-> None or the error,
\*    sent |-> the calls of es.search, response |-> what es.search returned,
\*    logged |-> whether an entry was appended to _es_queries]
\* last keeps, of the responses, their number (answered).
raw(w, self, t, env) ==
    Search(w, self, t, env,
           _build_query(w.steplists[w.builders[self].steps], w.builders[self].start,
                        w.builders[self].stop,
                        w.boostmaps[w.builders[self].field_boosts], hashorder))

\* bool(self._results_cache): None is false, and so is a SearchResults whose
\* __len__ is 0
CacheTruthy(cache) == cache # <<>> /\ ResultsLen(cache[1]) > 0

\* The class, were an S object without a type given dicts whatever was asked
DictUnlessTyped(me) ==
    IF me.as_dict \/ me.type = None THEN "DictSearchResults"
    ELSE IF me.as_list THEN "ListSearchResults"
    ELSE "ObjectSearchResults"

\* The class _do_search picks
ResultClass(me) ==
    IF me.as_list THEN "ListSearchResults"
    ELSE IF me.as_dict \/ me.type = None THEN "DictSearchResults"
    ELSE "ObjectSearchResults"

\* _do_search when raw() raised r.raised, were an empty result cached for it
CacheFailure(self, r) ==
    [w |-> [r.w EXCEPT !.nsearch[self] = @ + Len(r.response),
                       !.builders[self]._results_cache = <<[objects |-> <<>>]>>],
     raised |-> r.raised, sent |-> r.sent, response |-> r.response,
     logged |-> r.logged, results |-> <<>>]

\* _do_search when raw() raised r.raised: the error goes to the caller, and
\* _results_cache is not assigned
Propagate(self, r) ==
    [w |-> [r.w EXCEPT !.nsearch[self] = @ + Len(r.response)],
     raised |-> r.raised, sent |-> r.sent, response |-> r.response,
     logged |-> r.logged, results |-> <<>>]

\* The part of _do_search after raw() returned r: the hits are wrapped in the
\* SearchResults class and kept in _results_cache
Wrap(self, env, r) ==
    LET w1 == [r.w EXCEPT !.nsearch[self] = @ + Len(r.response)]
        me == w1.builders[self]
    IN  IF r.raised # None
        THEN Propagate(self, r)
        ELSE [w |-> [w1 EXCEPT !.builders[self]._results_cache =
                         <<SearchResults(ResultClass(me), me.type, r.response[1],
                                         me.fields, env.found)>>],
              raised |-> None, sent |-> r.sent, response |-> r.response,
              logged |-> r.logged,
              results |-> <<SearchResults(ResultClass(me), me.type, r.response[1],
                                          me.fields, env.found)>>]

\* S._do_search() called by thread t: as raw, with results |-> the
\* SearchResults it returns
_do_search(w, self, t, env) ==
    IF ~CacheTruthy(w.builders[self]._results_cache)
    THEN Wrap(self, env, raw(w, self, t, env))
    ELSE [w |-> w, raised |-> None, sent |-> <<>>, response |-> <<>>, logged |-> FALSE,
          results |-> w.builders[self]._results_cache]

\* The world without the S objects an operation made for itself: those after
\* the first n, with their step lists and boost maps.
Drop(w, old) ==
    [w EXCEPT !.builders = SubSeq(@, 1, Len(old.builders)),
              !.nsearch = SubSeq(@, 1, Len(old.nsearch)),
              !.steplists = SubSeq(@, 1, Len(old.steplists)),
              !.boostmaps = SubSeq(@, 1, Len(old.boostmaps))]

\* What an executing operation leaves in last
Ran(op, self, t, r, ret) ==
    [op |-> op, self |-> self, thread |-> t, raised |-> r.raised, sent |-> r.sent,
     answered |-> Len(r.response),
     total |-> [i \in 1..Len(r.response) |-> r.response[i].hits.total],
     logged |-> r.logged, ret |-> ret]

\* An operation may search while the bounds leave room for its outcome
Room(self, t) ==
    /\ nsearch[self] < MaxSearches
    /\ Len(local[t].queries) < MaxLog

\* S.raw(), called directly
S_raw(self, t, env) ==
    /\ Room(self, t)
    /\ \E r \in {raw(World, self, t, env)} :
       /\ SetWorld(r.w)
       /\ last' = Ran("raw", self, t, r, r.response)
    /\ UNCHANGED <<debug, hashorder>>
    /\ UNCHANGED <<fvars, fieldvars>>

\* S.__len__
S__len__(self, t, env) ==
    /\ Room(self, t)
    /\ \E r \in {_do_search(World, self, t, env)} :
       /\ SetWorld(r.w)
       /\ last' = Ran("len", self, t, r,
                      IF r.raised = None THEN <<ResultsLen(r.results[1])>> ELSE <<>>)
    /\ UNCHANGED <<debug, hashorder>>
    /\ UNCHANGED <<fvars, fieldvars>>

\* S.__iter__, iterated to its end
S__iter__(self, t, env) ==
    /\ Room(self, t)
    /\ \E r \in {_do_search(World, self, t, env)} :
       /\ SetWorld(r.w)
       /\ last' = Ran("iter", self, t, r,
                      IF r.raised = None THEN ResultsIter(r.results[1]) ELSE <<>>)
    /\ UNCHANGED <<debug, hashorder>>
    /\ UNCHANGED <<fvars, fieldvars>>

\* the slice of count(): self[:0]
CountSlice == [start |-> <<>>, stop |-> <<0>>]

\* S.__getitem__(k) for a slice, on the world: the new S object is the last
Sliced(w, self, k) ==
    LET h   == _clone([builders |-> w.builders, steplists |-> w.steplists,
                       boostmaps |-> w.boostmaps], self, <<>>)
        new == Len(h.builders)
    IN  [w EXCEPT !.builders = [h.builders EXCEPT
                                   ![new].start = IF k.start = <<>> THEN 0 ELSE k.start[1],
                                   ![new].stop = k.stop],
                  !.steplists = h.steplists,
                  !.boostmaps = h.boostmaps,
                  !.nsearch = Append(@, 0)]

\* S.count()
count(self, t, env) ==
    /\ Room(self, t)
    /\ IF CacheTruthy(builders[self]._results_cache)
       THEN /\ last' = [op |-> "count", self |-> self, thread |-> t, raised |-> None,
                        sent |-> <<>>, answered |-> 0, total |-> <<>>,
                        logged |-> FALSE,
                        ret |-> <<builders[self]._results_cache[1].count>>]
            /\ UNCHANGED <<builders, steplists, boostmaps, nsearch, local>>
       ELSE \E r \in {raw(Sliced(World, self, CountSlice), Len(builders) + 1, t, env)} :
                /\ SetWorld(Drop(r.w, World))
                /\ last' = Ran("count", self, t, r,
                               IF r.raised = None THEN <<r.response[1].hits.total>>
                               ELSE <<>>)
    /\ UNCHANGED <<debug, hashorder>>
    /\ UNCHANGED <<fvars, fieldvars>>

\* list(s) for an S object s: CPython takes iter(s), then len(s) as a size
\* hint, then the items of the iterator.

\* The list built, r1 being the outcome of iter(s) and r2 that of len(s): as
\* _do_search, with items |-> the list
ListOfIter(r1, r2) ==
    IF r1.raised # None THEN r1 @@ [items |-> <<>>]
    ELSE [w |-> r2.w, raised |-> r2.raised, sent |-> r1.sent \o r2.sent,
          response |-> r1.response \o r2.response,
          logged |-> r1.logged \/ r2.logged, results |-> r1.results,
          items |-> ResultsIter(r1.results[1])]

\* After iter(s) returned: len(s) is called on the same S object
LengthHint(self, t, env, r1) == ListOfIter(r1, _do_search(r1.w, self, t, env))

\* list(s), the backend being in env when iter(s) searches and in hint when
\* len(s) does
list(w, self, t, env, hint) == LengthHint(self, t, hint, _do_search(w, self, t, env))

\* S.__getitem__(k) for an integer k: list(new)[0]
GetItem(self, k, t, env) ==
    /\ Room(self, t)
    /\ \E hint \in Envs :
       \E r \in {list(Sliced(World, self, [start |-> <<k>>, stop |-> <<k + 1>>]),
                      Len(builders) + 1, t, env, hint)} :
           /\ SetWorld(Drop(r.w, World))
           /\ last' = [k |-> k]
                      @@ IF r.raised = None /\ r.items = <<>>
                         THEN Ran("getitem", self, t, [r EXCEPT !.raised = "IndexError"], <<>>)
                         ELSE Ran("getitem", self, t, r,
                                  IF r.raised = None THEN <<r.items[1]>> ELSE <<>>)
    /\ UNCHANGED <<debug, hashorder>>
    /\ UNCHANGED <<fvars, fieldvars>>

\* reset_search_queries, connected to request_started when settings.DEBUG is
\* set: the calling thread's list is replaced by an empty one
reset_search_queries(t) ==
    /\ debug
    /\ local' = [local EXCEPT ![t] = [has |-> TRUE, queries |-> <<>>]]
    /\ last' = [op |-> "reset_search_queries", thread |-> t, raised |-> None]
    /\ UNCHANGED <<builders, steplists, boostmaps, nsearch, debug, hashorder>>
    /\ UNCHANGED <<fvars, fieldvars>>

-----------------------------------------------------------------------------
(* fields.py: the search fields.

   A Python value is a record whose field t names its type; the other fields
   differ from type to type.  A str is the sequence of its characters, so
   that formatting and parsing are computed character by character.  Floats
   and Decimals are exact decimal fractions num/den, den a power of ten,
   in lowest terms; datetimes are naive. *)

PyNone == [t |-> "NoneType"]
PyBool(b) == [t |-> "bool", b |-> b]
PyInt(n) == [t |-> "int", n |-> n]
PyStr(chars) == [t |-> "str", s |-> chars]
PyUnicode(chars) == [t |-> "unicode", u |-> chars]

RECURSIVE LowestTerms(_, _)
LowestTerms(num, den) ==
    IF den > 1 /\ num % 10 = 0 THEN LowestTerms(num \div 10, den \div 10)
    ELSE [num |-> num, den |-> den]

PyFloat(num, den) == [t |-> "float"] @@ LowestTerms(num, den)

Decimal(num, den) == [t |-> "Decimal"] @@ LowestTerms(num, den)

\* the string literals of fields.py and of its callers
s_true == <<"t", "r", "u", "e">>

s_false == <<"f", "a", "l", "s", "e">>

s_True == <<"T", "r", "u", "e">>

s_False == <<"F", "a", "l", "s", "e">>

s_None == <<"N", "o", "n", "e">>

s_string == <<"s", "t", "r", "i", "n", "g">>

s_integer == <<"i", "n", "t", "e", "g", "e", "r">>

s_byte == <<"b", "y", "t", "e">>

s_short == <<"s", "h", "o", "r", "t">>

s_long == <<"l", "o", "n", "g">>

s_float == <<"f", "l", "o", "a", "t">>

s_double == <<"d", "o", "u", "b", "l", "e">>

s_boolean == <<"b", "o", "o", "l", "e", "a", "n">>

s_date == <<"d", "a", "t", "e">>

s_binary == <<"b", "i", "n", "a", "r", "y">>

\* what a call returns, or the exception it raises
Returned(v) == [raised |-> None, ret |-> <<v>>]

Raised(e) == [raised |-> e, ret |-> <<>>]

DigitChars == <<"0", "1", "2", "3", "4", "5", "6", "7", "8", "9">>

Whitespace == {" ", "\t", "\n", "\r", "\f"}

\* \d+ : one or more decimal digits
IsDigits(chars) == chars # <<>> /\ \A i \in 1..Len(chars) : chars[i] \in Range(DigitChars)

DigitValue(c) == (CHOOSE i \in 1..10 : DigitChars[i] = c) - 1

\* the number a sequence of decimal digits denotes
RECURSIVE Number(_)
Number(chars) ==
    IF chars = <<>> THEN 0
    ELSE 10 * Number(SubSeq(chars, 1, Len(chars) - 1)) + DigitValue(chars[Len(chars)])

\* '%0*d' % (width, n)
Pad(n, width) == [i \in 1..width |-> DigitChars[((n \div 10^(width - i)) % 10) + 1]]

\* '%d' % n, n >= 0
Decimals(n) == Pad(n, CHOOSE w \in 1..12 : n < 10^w /\ (w = 1 \/ n >= 10^(w - 1)))

\* the characters of a str or unicode value
Text(val) == IF val.t = "str" THEN val.s ELSE val.u

IsText(val) == val.t \in {"str", "unicode"}

\* A decimal literal: digits, or digits '.' digits with digits on one side
\* at least; where its '.' is, 0 when it has none.
DotOf(chars) == IF \E i \in 1..Len(chars) : chars[i] = "."
                THEN CHOOSE i \in 1..Len(chars) : chars[i] = "." ELSE 0

IsDecimalLiteral(chars) ==
    LET dot == DotOf(chars)
        int_part == SubSeq(chars, 1, dot - 1)
        frac == SubSeq(chars, dot + 1, Len(chars))
    IN  IF dot = 0 THEN IsDigits(chars)
        ELSE /\ int_part = <<>> \/ IsDigits(int_part)
             /\ frac = <<>> \/ IsDigits(frac)
             /\ int_part # <<>> \/ frac # <<>>

DecimalLiteral(chars) ==
    LET dot == DotOf(chars)
        frac == SubSeq(chars, dot + 1, Len(chars))
    IN  IF dot = 0 THEN [num |-> Number(chars), den |-> 1]
        ELSE [num |-> Number(SubSeq(chars, 1, dot - 1)) * 10^Len(frac) + Number(frac),
              den |-> 10^Len(frac)]

\* datetime.date(year, month, day), datetime.datetime(year, ..., microsecond)
DaysInMonth(year, month) ==
    IF month = 2
    THEN IF year % 4 = 0 /\ (year % 100 # 0 \/ year % 400 = 0) THEN 29 ELSE 28
    ELSE IF month \in {4, 6, 9, 11} THEN 30 ELSE 31

IsDate(year, month, day) ==
    /\ year \in 1..9999
    /\ month \in 1..12
    /\ day \in 1..DaysInMonth(year, month)

date(year, month, day) ==
    IF IsDate(year, month, day)
    THEN Returned([t |-> "date", year |-> year, month |-> month, day |-> day])
    ELSE Raised("ValueError")

datetime(year, month, day, hour, minute, second, microsecond) ==
    IF /\ IsDate(year, month, day)
       /\ hour \in 0..23 /\ minute \in 0..59 /\ second \in 0..59
       /\ microsecond \in 0..999999
    THEN Returned([t |-> "datetime", year |-> year, month |-> month, day |-> day,
                   hour |-> hour, minute |-> minute, second |-> second,
                   microsecond |-> microsecond])
    ELSE Raised("ValueError")

\* date.isoformat(): 'YYYY-MM-DD'
date_isoformat(d) ==
    Pad(d.year, 4) \o <<"-">> \o Pad(d.month, 2) \o <<"-">> \o Pad(d.day, 2)

\* datetime.isoformat(sep): 'YYYY-MM-DDTHH:MM:SS', and '.mmmmmm' after it
\* when the microsecond is not 0
datetime_isoformat(d, sep) ==
    date_isoformat(d) \o <<sep>> \o Pad(d.hour, 2) \o <<":">> \o Pad(d.minute, 2)
    \o <<":">> \o Pad(d.second, 2)
    \o (IF d.microsecond # 0 THEN <<".">> \o Pad(d.microsecond, 6) ELSE <<>>)

isoformat(value) ==
    IF value.t = "date" THEN date_isoformat(value) ELSE datetime_isoformat(value, "T")

\* bool(val), the truth value of val
bool(val) ==
    CASE val.t = "NoneType" -> FALSE
      [] val.t = "bool" -> val.b
      [] val.t = "int" -> val.n # 0
      [] val.t \in {"float", "Decimal"} -> val.num # 0
      [] IsText(val) -> Text(val) # <<>>
      [] OTHER -> TRUE

\* str(val)
str(val) ==
    CASE val.t = "NoneType" -> s_None
      [] val.t = "bool" -> IF val.b THEN s_True ELSE s_False
      [] val.t = "int" -> Decimals(val.n)
      [] val.t \in {"float", "Decimal"} ->
            Decimals(val.num \div val.den) \o <<".">>
            \o (IF val.den = 1 THEN <<"0">>
                ELSE Pad(val.num % val.den, (CHOOSE k \in 1..12 : 10^k = val.den)))
      [] IsText(val) -> Text(val)
      [] val.t = "date" -> date_isoformat(val)
      [] val.t = "datetime" -> datetime_isoformat(val, " ")

\* float(val)
float(val) ==
    CASE val.t = "float" -> Returned(val)
      [] val.t = "Decimal" -> Returned(PyFloat(val.num, val.den))
      [] val.t = "int" -> Returned(PyFloat(val.n, 1))
      [] val.t = "bool" -> Returned(PyFloat(IF val.b THEN 1 ELSE 0, 1))
      [] IsText(val) ->
            IF IsDecimalLiteral(Text(val))
            THEN Returned(PyFloat(DecimalLiteral(Text(val)).num, DecimalLiteral(Text(val)).den))
            ELSE Raised("ValueError")
      [] OTHER -> Raised("TypeError")

\* int(val)
int_of(val) ==
    CASE val.t = "int" -> Returned(val)
      [] val.t \in {"float", "Decimal"} -> Returned(PyInt(val.num \div val.den))
      [] val.t = "bool" -> Returned(PyInt(IF val.b THEN 1 ELSE 0))
      [] IsText(val) ->
            IF IsDigits(Text(val)) THEN Returned(PyInt(Number(Text(val))))
            ELSE Raised("ValueError")
      [] OTHER -> Raised("TypeError")

\* val == chars, chars the characters of a str literal
EqualsStr(val, chars) == IsText(val) /\ Text(val) = chars

\* class attributes: attrs, bool_casts, float_casts, int_casts, field_type
SearchFieldAttrs == <<"boost", "include_in_all", "index", "null_value", "store">>

FieldClasses == {"SearchField", "StringField", "IntegerField", "FloatField",
                 "DecimalField", "BooleanField", "DateField", "DateTimeField",
                 "BinaryField"}

attrs(cls) ==
    CASE cls \in {"SearchField", "BooleanField"} -> SearchFieldAttrs
      [] cls \in {"StringField", "DecimalField"} ->
            SearchFieldAttrs \o <<"analyzer", "ignore_above", "index_analyzer",
                                  "index_options", "omit_norms",
                                  "position_offset_gap", "search_analyzer",
                                  "term_vector">>
      [] cls \in {"IntegerField", "FloatField"} ->
            SearchFieldAttrs \o <<"ignore_malformed", "precision_step">>
      [] cls \in {"DateField", "DateTimeField"} ->
            SearchFieldAttrs \o <<"format", "ignore_malformed", "precision_step">>
      [] cls = "BinaryField" -> <<>>

bool_casts(cls) ==
    CASE cls = "SearchField" -> {"include_in_all"}
      [] cls \in {"StringField", "DecimalField"} -> {"include_in_all", "omit_norms"}
      [] cls \in {"IntegerField", "FloatField", "DateField", "DateTimeField"} ->
            {"include_in_all", "ignore_malformed"}
      [] cls = "BooleanField" -> {"include_in_all", "null_value"}
      [] cls = "BinaryField" -> {}

float_casts(cls) ==
    CASE cls = "BinaryField" -> {}
      [] cls = "FloatField" -> {"boost", "null_value"}
      [] OTHER -> {"boost"}

int_casts(cls) ==
    CASE cls \in {"StringField", "DecimalField"} -> {"position_offset_gap"}
      [] cls = "IntegerField" -> {"precision_step", "null_value"}
      [] cls \in {"FloatField", "DateField", "DateTimeField"} -> {"precision_step"}
      [] OTHER -> {}

field_type(cls) ==
    CASE cls = "SearchField" -> PyNone
      [] cls \in {"StringField", "DecimalField"} -> PyStr(s_string)
      [] cls = "IntegerField" -> PyStr(s_integer)
      [] cls = "FloatField" -> PyStr(s_float)
      [] cls = "BooleanField" -> PyStr(s_boolean)
      [] cls \in {"DateField", "DateTimeField"} -> PyStr(s_date)
      [] cls = "BinaryField" -> PyStr(s_binary)

\* The types IntegerField.__init__ and FloatField.__init__ take over
FieldTypesOf(cls) ==
    CASE cls = "IntegerField" -> {s_byte, s_short, s_integer, s_long}
      [] cls = "FloatField" -> {s_float, s_double}
      [] OTHER -> {}

\* cls(*args, **kwargs): the new field.  SearchField.__init__, which
\* BinaryField inherits, stores none of the attributes; the other classes
\* store every attribute of attrs, None for one that kwargs lacks.  The
\* first positional argument of IntegerField and FloatField is type.
NewField(cls, args, kwargs) ==
    [cls |-> cls,
     field_type |-> IF args # <<>> /\ IsText(args[1])
                       /\ Text(args[1]) \in FieldTypesOf(cls)
                    THEN args[1] ELSE field_type(cls),
     dict |-> IF cls \in {"SearchField", "BinaryField"} THEN EmptyDict
              ELSE [attr \in Range(attrs(cls)) |->
                       IF attr \in DOMAIN kwargs THEN kwargs[attr] ELSE PyNone]]

\* getattr(self, attr, None)
getattr(self, attr) == IF attr \in DOMAIN self.dict THEN self.dict[attr] ELSE PyNone

\* Were an attribute emitted only when its value is true
IsTrue(val) == bool(val)

\* val is not None
IsNotNone(val) == val # PyNone

\* What get_definition stores for attr
Cast(self, attr, val) ==
    IF attr \in bool_casts(self.cls)
    THEN Returned(PyBool(~(~bool(val) \/ EqualsStr(val, s_false))))
    ELSE IF attr \in float_casts(self.cls) THEN float(val)
    ELSE IF attr \in int_casts(self.cls) THEN int_of(val)
    ELSE Returned(PyStr(str(val)))

\* SearchField.get_definition: the loop over self.attrs from its i-th element
RECURSIVE DefinitionLoop(_, _, _)
DefinitionLoop(self, f, i) ==
    IF i > Len(attrs(self.cls)) THEN Returned(f)
    ELSE LET attr == attrs(self.cls)[i]
             val  == getattr(self, attr)
         IN  IF ~IsNotNone(val) THEN DefinitionLoop(self, f, i + 1)
             ELSE IF Cast(self, attr, val).raised # None THEN Cast(self, attr, val)
             ELSE DefinitionLoop(self, Dict1(attr, Cast(self, attr, val).ret[1]) @@ f,
                                 i + 1)

get_definition(self) == DefinitionLoop(self, Dict1("type", self.field_type), 1)

\* DATE_REGEX.search(value): the groups, when value matches
DateMatch(chars) ==
    IF /\ Len(chars) >= 10
       /\ IsDigits(SubSeq(chars, 1, 4)) /\ chars[5] = "-"
       /\ IsDigits(SubSeq(chars, 6, 7)) /\ chars[8] = "-"
       /\ IsDigits(SubSeq(chars, 9, 10))
       /\ \A i \in 11..(Len(chars) - 1) : chars[i] # "\n"
    THEN <<[year |-> SubSeq(chars, 1, 4), month |-> SubSeq(chars, 6, 7),
            day |-> SubSeq(chars, 9, 10)]>>
    ELSE <<>>

\* DATETIME_REGEX.search(value): after the date 'T' or whitespace, then the
\* time; TimesAt is where the time may start.
TimesAt(chars) ==
    {p \in 12..Len(chars) :
        \/ p = 12 /\ chars[11] = "T"
        \/ \A i \in 11..(p - 1) : chars[i] \in Whitespace}

DateTimeMatch(chars) ==
    LET starts == {p \in TimesAt(chars) :
                      /\ Len(chars) >= p + 7
                      /\ IsDigits(SubSeq(chars, p, p + 1)) /\ chars[p + 2] = ":"
                      /\ IsDigits(SubSeq(chars, p + 3, p + 4)) /\ chars[p + 5] = ":"
                      /\ IsDigits(SubSeq(chars, p + 6, p + 7))
                      /\ \A i \in (p + 8)..(Len(chars) - 1) : chars[i] # "\n"}
    IN  IF Len(chars) >= 10 /\ DateMatch(SubSeq(chars, 1, 10)) # <<>> /\ starts # {}
        THEN LET p == CHOOSE p \in starts : TRUE
             IN  <<DateMatch(SubSeq(chars, 1, 10))[1]
                   @@ [hour |-> SubSeq(chars, p, p + 1),
                       minute |-> SubSeq(chars, p + 3, p + 4),
                       second |-> SubSeq(chars, p + 6, p + 7)]>>
        ELSE <<>>

\* raise SearchFieldError("... '%s' ..." % (self.instance_name, value)):
\* no field has an instance_name, reading it raises AttributeError
RaiseSearchFieldError == Raised("AttributeError")

\* DateField.convert on a string
DateOfString(chars) ==
    IF DateMatch(chars) # <<>>
    THEN date(Number(DateMatch(chars)[1].year), Number(DateMatch(chars)[1].month),
              Number(DateMatch(chars)[1].day))
    ELSE RaiseSearchFieldError

\* datetime.datetime(year, month, day, hour, minute, second) of the groups
DateTimeOfGroups(data) ==
    datetime(Number(data.year), Number(data.month), Number(data.day),
             Number(data.hour), Number(data.minute), Number(data.second), 0)

\* DateTimeField.convert on a string
DateTimeOfString(chars) ==
    IF DateTimeMatch(chars) # <<>> THEN DateTimeOfGroups(DateTimeMatch(chars)[1])
    ELSE RaiseSearchFieldError

\* Decimal(chars)
DecimalOf(chars) ==
    IF IsDecimalLiteral(chars)
    THEN Returned(Decimal(DecimalLiteral(chars).num, DecimalLiteral(chars).den))
    ELSE Raised("InvalidOperation")

\* base64.b64encode(value), base64.b64decode(value): of the empty string the
\* empty string, a TypeError for what is not a string
base64(value) ==
    IF IsText(value) /\ Text(value) = <<>> THEN Returned(PyStr(<<>>))
    ELSE Raised("TypeError")

\* cls.convert(self, value)
convert(self, value) ==
    IF self.cls = "SearchField" THEN Returned(value)
    ELSE IF value = PyNone THEN Returned(PyNone)
    ELSE CASE self.cls = "StringField" -> Returned(PyUnicode(str(value)))
           [] self.cls = "IntegerField" -> int_of(value)
           [] self.cls = "FloatField" -> float(value)
           [] self.cls = "DecimalField" -> DecimalOf(str(value))
           [] self.cls = "BooleanField" -> Returned(PyBool(bool(value)))
           [] self.cls = "DateField" ->
                 IF IsText(value) THEN DateOfString(Text(value)) ELSE Returned(value)
           [] self.cls = "DateTimeField" ->
                 IF IsText(value) THEN DateTimeOfString(Text(value)) ELSE Returned(value)
           [] self.cls = "BinaryField" -> base64(value)

\* cls.prepare(self, value)
prepare(self, value) ==
    CASE self.cls = "SearchField" -> Returned(value)
      [] self.cls \in {"StringField", "IntegerField", "FloatField", "BooleanField"} ->
            convert(self, value)
      [] self.cls = "DecimalField" ->
            IF value = PyNone THEN Returned(PyNone) ELSE Returned(PyStr(str(value)))
      [] self.cls \in {"DateField", "DateTimeField"} ->
            IF value.t \in {"date", "datetime"} THEN Returned(PyStr(isoformat(value)))
            ELSE Returned(value)
      [] self.cls = "BinaryField" ->
            IF value = PyNone THEN Returned(PyNone) ELSE base64(value)

\* The operations on the field: field.self is the field, field.call the
\* call that made it; fieldop is the last operation on it.
Called(op, value, r) ==
    [op |-> op, value |-> value, raised |-> r.raised, ret |-> r.ret, prepared |-> <<>>]

GetDefinition ==
    /\ fieldop' = Called("get_definition", <<>>, get_definition(field.self))
    /\ UNCHANGED <<fvars, svars, field>>

Prepare(value) ==
    /\ fieldop' = Called("prepare", <<value>>, prepare(field.self, value))
    /\ UNCHANGED <<fvars, svars, field>>

Convert(value) ==
    /\ fieldop' = Called("convert", <<value>>, convert(field.self, value))
    /\ UNCHANGED <<fvars, svars, field>>

\* convert(prepare(value)): convert is called with what prepare returned
ConvertPrepared ==
    /\ fieldop.op = "prepare" /\ fieldop.raised = None
    /\ fieldop' = [Called("convert", fieldop.ret, convert(field.self, fieldop.ret[1]))
                     EXCEPT !.prepared = fieldop.value]
    /\ UNCHANGED <<fvars, svars, field>>

\* no field is made
NoField ==
    /\ field = <<>>
    /\ fieldop = [op |-> "none", raised |-> None]

-----------------------------------------------------------------------------
(* Initial states and specifications *)

\* One S object, S(type_), in a process that imported the module with
\* settings.DEBUG = dbg and iterates sets of field names in the given order
SInitState(type_, dbg, order) ==
    /\ builders = <<NewS(type_, 1, 1)>>
    /\ steplists = << <<>> >>
    /\ boostmaps = << EmptyDict >>
    /\ nsearch = <<0>>
    /\ local = [t \in Threads |-> [has |-> dbg /\ t = MainThread, queries |-> <<>>]]
    /\ debug = dbg
    /\ hashorder = order
    /\ last = [op |-> "S", self |-> 1, raised |-> None]

\* what the specifications below call the methods with
EsSettings == {[hosts |-> "es1"]}
BuilderFunctions == {"thread_local_builder"}
IndexNames == {<<"index1">>}
DoctypeNames == {<<"doctype1">>}
Boosts == {"price" :> 4}
FacetFlags == {EmptyDict, [filtered |-> TRUE], [global_ |-> TRUE]}
RawFacets == {[tags |-> [terms |-> [field |-> "a"]]]}
HighlightFields == {<<"a">>, <<None>>}
DemoteAmounts == {2}

\* what the operations that compile a request leave in last.op
Compiling == {"raw", "count", "len", "iter", "getitem"}

\* No F object, one S object, settings.DEBUG set
InitDebug == FInitState /\ SInitState(None, TRUE, SourceOrder) /\ NoField

\* The filter algebra on its own: F objects are built and combined.
SpecF == InitDebug /\ [][FNext]_vars

Init ==
    /\ FInitState
    /\ NoField
    /\ \E dbg \in BOOLEAN : SInitState(None, dbg, SourceOrder)

Next ==
    \/ \E self \in 1..Len(builders), settings \in EsSettings : es(self, settings)
    \/ \E self \in 1..Len(builders), f \in BuilderFunctions : es_builder(self, f)
    \/ \E self \in 1..Len(builders), env \in Envs : S_raw(self, MainThread, env)
    \/ \E self \in 1..Len(builders), env \in Envs : S__len__(self, MainThread, env)
    \/ \E self \in 1..Len(builders), env \in Envs : S__iter__(self, MainThread, env)
    \/ \E self \in 1..Len(builders), env \in Envs : count(self, MainThread, env)
    \/ reset_search_queries(MainThread)

\* Builders are chained and executed by the importing thread.
Spec == Init /\ [][Next]_vars

\* Cloning: every chaining method is called, on any S object there is, and the
\* first S object is materialised by a thread that has no query log.
CloneInputs ==
    [explain |-> {TRUE}, fields |-> {<<"a">>}, sort |-> {<<"-a">>},
     kw |-> {<<Pair("a", 1)>>}, flags |-> {EmptyDict}, highlight |-> {<<"a">>},
     slices |-> {[start |-> <<1>>, stop |-> <<2>>]}]

NextClone ==
    \/ \E self \in 1..Len(builders), settings \in EsSettings : es(self, settings)
    \/ \E self \in 1..Len(builders), f \in BuilderFunctions : es_builder(self, f)
    \/ \E self \in 1..Len(builders), ixs \in IndexNames : indexes(self, ixs)
    \/ \E self \in 1..Len(builders), dts \in DoctypeNames : doctypes(self, dts)
    \/ \E self \in 1..Len(builders), value \in CloneInputs.explain : explain(self, value)
    \/ \E self \in 1..Len(builders), fields \in CloneInputs.fields : values_list(self, fields)
    \/ \E self \in 1..Len(builders), fields \in CloneInputs.fields : values_dict(self, fields)
    \/ \E self \in 1..Len(builders), fields \in CloneInputs.sort : order_by(self, fields)
    \/ \E self \in 1..Len(builders), kw \in CloneInputs.kw : query(self, kw)
    \/ \E self \in 1..Len(builders), kw \in CloneInputs.kw : filter(self, <<>>, kw)
    \/ \E self \in 1..Len(builders), kw \in Boosts : boost(self, kw)
    \/ \E self \in 1..Len(builders), amount_ \in DemoteAmounts, kw \in CloneInputs.kw :
           demote(self, amount_, kw)
    \/ \E self \in 1..Len(builders), kw \in CloneInputs.flags : facet(self, <<"a">>, kw)
    \/ \E self \in 1..Len(builders), kw \in RawFacets : facet_raw(self, kw)
    \/ \E self \in 1..Len(builders), fields \in CloneInputs.highlight : highlight(self, fields, EmptyDict)
    \/ \E self \in 1..Len(builders), fields \in CloneInputs.sort : extra(self, <<Step("order_by", fields)>>)
    \/ \E self \in 1..Len(builders), k \in CloneInputs.slices : GetSlice(self, k)
    \/ \E env \in Envs : S__len__(1, WorkerThread, env)

SpecClone == InitDebug /\ [][NextClone]_vars

\* Compiling: one chain of calls, each on the S object the call before
\* returned, with raw() and count() on what it built, by a thread that has no
\* query log.
CompileInputs ==
    [explain |-> {TRUE},
     fields |-> {<<>>, <<"a">>},
     sort |-> {<<"a", "-b">>},
     kw |-> {<<Pair("price__gte", 10), Pair("price__lte", 50)>>,
             <<Pair("price__gt", 10)>>,
             <<Pair("a__text", "x")>>,
             <<Pair("a", 1), Pair("or_", <<Pair("b", 2), Pair("a__prefix", "x")>>)>>,
             <<Pair("a__foo", 1)>>},
     flags |-> FacetFlags,
     highlight |-> HighlightFields,
     slices |-> {[start |-> <<1>>, stop |-> <<2>>], [start |-> <<>>, stop |-> <<1>>],
                 [start |-> <<1>>, stop |-> <<>>]}]

NextCompile ==
    \/ \E settings \in EsSettings : es(Len(builders), settings)
    \/ \E f \in BuilderFunctions : es_builder(Len(builders), f)
    \/ \E ixs \in IndexNames : indexes(Len(builders), ixs)
    \/ \E dts \in DoctypeNames : doctypes(Len(builders), dts)
    \/ \E value \in CompileInputs.explain : explain(Len(builders), value)
    \/ \E fields \in CompileInputs.fields : values_list(Len(builders), fields)
    \/ \E fields \in CompileInputs.fields : values_dict(Len(builders), fields)
    \/ \E fields \in CompileInputs.sort : order_by(Len(builders), fields)
    \/ \E kw \in CompileInputs.kw : query(Len(builders), kw)
    \/ \E kw \in CompileInputs.kw : filter(Len(builders), <<>>, kw)
    \/ \E kw \in Boosts : boost(Len(builders), kw)
    \/ \E amount_ \in DemoteAmounts, kw \in CompileInputs.kw :
           demote(Len(builders), amount_, kw)
    \/ \E kw \in CompileInputs.flags : facet(Len(builders), <<"a">>, kw)
    \/ \E kw \in RawFacets : facet_raw(Len(builders), kw)
    \/ \E fields \in CompileInputs.highlight : highlight(Len(builders), fields, EmptyDict)
    \/ \E fields \in CompileInputs.sort : extra(Len(builders), <<Step("order_by", fields)>>)
    \/ \E k \in CompileInputs.slices : GetSlice(Len(builders), k)
    \/ \E env \in Envs : S_raw(Len(builders), WorkerThread, env)
    \/ \E env \in Envs : count(Len(builders), WorkerThread, env)

SpecCompile == InitDebug /\ [][NextCompile]_vars

\* Results: the builds differ in the order they iterate a set of field names;
\* values_list and values_dict are called in one chain, and then the results
\* of what the chain built are read.
RECURSIVE Orders(_)
Orders(set) ==
    IF set = {} THEN {<<>>}
    ELSE UNION {{<<x>> \o o : o \in Orders(set \ {x})} : x \in set}

ResultFields == {<<>>, <<"id">>, <<"a">>, <<"b", "a">>}
DictFields == {<<>>, <<"a">>}

\* S() in a build of any iteration order, or S(FakeModel) in one of them
InitResults ==
    /\ FInitState
    /\ NoField
    /\ \/ \E order \in Orders(Range(SourceOrder)) : SInitState(None, TRUE, order)
       \/ SInitState("FakeModel", TRUE, SourceOrder)

NextResults ==
    \/ last.op \notin Compiling /\ \E fields \in ResultFields : values_list(Len(builders), fields)
    \/ last.op \notin Compiling /\ \E fields \in DictFields : values_dict(Len(builders), fields)
    \/ \E env \in Envs : S__iter__(Len(builders), WorkerThread, env)
    \/ \E env \in Envs : GetItem(Len(builders), 0, WorkerThread, env)

SpecResults == InitResults /\ [][NextResults]_vars

\* Threads: with settings.DEBUG set, the importing thread and a thread
\* started later both search and both receive request_started.
NextThreads ==
    \/ \E self \in 1..Len(builders), settings \in EsSettings : es(self, settings)
    \/ \E self \in 1..Len(builders), t \in Threads, env \in Envs : S_raw(self, t, env)
    \/ \E self \in 1..Len(builders), t \in Threads, env \in Envs : S__len__(self, t, env)
    \/ \E t \in Threads : reset_search_queries(t)

SpecThreads == InitDebug /\ [][NextThreads]_vars

\* Highlighting: one chain of highlight calls, and raw() on what it built.
HighlightArgs == {<<"a">>, <<"b">>, <<"a", "b">>, <<None>>}
HighlightOptions == {EmptyDict, [pre_tags |-> <<"<b>">>]}

NextHighlight ==
    \/ \E fields \in HighlightArgs, kwargs \in HighlightOptions :
           highlight(Len(builders), fields, kwargs)
    \/ \E env \in Envs : S_raw(Len(builders), WorkerThread, env)

SpecHighlight == InitDebug /\ [][NextHighlight]_vars

\* Filtering: the builds differ in the order they iterate a dict; filter is
\* called in one chain, with F objects and keyword arguments, and raw() on
\* what the chain built.
FilterFs == {<<>>,
             <<[isF |-> TRUE, filters |-> [term |-> Dict1("a", 1)]]>>,
             <<[isF |-> TRUE, filters |-> EmptyDict]>>}
FilterKwargs == {<<>>, <<Pair("a", 1)>>, <<Pair("b", 2)>>,
                 <<Pair("a", 1), Pair("b", 2)>>, <<Pair("b", 2), Pair("a", 1)>>}

InitOrders ==
    /\ FInitState
    /\ NoField
    /\ \E order \in Orders(Range(SourceOrder)) : SInitState(None, TRUE, order)

NextFilter ==
    \/ \E filters \in FilterFs, kw \in FilterKwargs :
           S_filter(Len(builders), filters, kw)
    \/ \E env \in Envs : S_raw(Len(builders), WorkerThread, env)

SpecFilter == InitOrders /\ [][NextFilter]_vars

\* Negation: F objects with a leaf, an AND-group, an OR-group and an empty
\* document are built, combined and negated.
NegationKwargs ==
    { <<>>,
      <<Pair("a", 1)>>,
      <<Pair("a", 1), Pair("b__gte", 2)>>,
      <<Pair("or_", <<Pair("a", 1), Pair("c__in", 3)>>)>> }

NextNegation ==
    \/ \E filters \in NegationKwargs : FInit(filters)
    \/ \E a, b \in 1..Len(fobjs) : F__and__(a, b)
    \/ \E a, b \in 1..Len(fobjs) : F__or__(a, b)
    \/ \E a \in 1..Len(fobjs) : F__invert__(a)

SpecNegation == InitDebug /\ [][NextNegation]_vars

\* Facets: facet and filter are called in one chain, in any order, the
\* filter with a keyword argument, with an empty F object or with nothing,
\* and raw() on what the chain built.
FacetFilters == {<<>>, <<[isF |-> TRUE, filters |-> EmptyDict]>>}
FacetFilterKwargs == {<<>>, <<Pair("a", 1)>>}

NextFacet ==
    \/ \E kw \in FacetFlags : facet(Len(builders), <<"a">>, kw)
    \/ \E filters \in FacetFilters, kw \in FacetFilterKwargs :
           S_filter(Len(builders), filters, kw)
    \/ \E env \in Envs : S_raw(Len(builders), WorkerThread, env)

SpecFacet == InitDebug /\ [][NextFacet]_vars

\* Result shapes: S() or S(FakeModel); values_list, values_dict and order_by
\* are called in one chain, and then what the chain built is iterated, any
\* number of times.
ShapeFields == {<<>>, <<"a">>}

InitShape ==
    /\ FInitState
    /\ NoField
    /\ \E type_ \in {None, "FakeModel"} : SInitState(type_, TRUE, SourceOrder)

NextShape ==
    \/ last.op # "iter" /\ \E fields \in ShapeFields : values_list(Len(builders), fields)
    \/ last.op # "iter" /\ \E fields \in ShapeFields : values_dict(Len(builders), fields)
    \/ last.op # "iter" /\ order_by(Len(builders), <<"a">>)
    \/ \E env \in Envs : S__iter__(Len(builders), WorkerThread, env)

SpecShape == InitShape /\ [][NextShape]_vars

\* Field actions: an F object is constructed, or filter and query are called
\* in one chain, with keys of known and of unknown actions, and then every
\* operation that compiles is called on what the chain built.
ActionKwargs ==
    { <<Pair("a", 1)>>,
      <<Pair("a__foo", 1)>>,
      <<Pair("a", 1), Pair("b__bar", 2)>>,
      <<Pair("or___foo", <<Pair("a", 1)>>)>> }

NextActions ==
    \/ (fobjs = <<>> /\ last.op = "S") /\ \E filters \in ActionKwargs : FInit(filters)
    \/ last.op \notin Compiling /\ \E kw \in ActionKwargs : filter(Len(builders), <<>>, kw)
    \/ last.op \notin Compiling /\ \E kw \in ActionKwargs : query(Len(builders), kw)
    \/ \E env \in Envs : S_raw(Len(builders), WorkerThread, env)
    \/ \E env \in Envs : count(Len(builders), WorkerThread, env)
    \/ \E env \in Envs : S__len__(Len(builders), WorkerThread, env)
    \/ \E env \in Envs : S__iter__(Len(builders), WorkerThread, env)
    \/ \E env \in Envs : GetItem(Len(builders), 0, WorkerThread, env)

SpecActions == InitDebug /\ [][NextActions]_vars

\* Backend failures: S().filter(...) is materialised by the importing
\* thread, in every way there is, against a backend that answers or raises.
NextFailure ==
    \/ last.op = "S" /\ \E kw \in CloneInputs.kw : filter(1, <<>>, kw)
    \/ \E env \in Envs : S_raw(Len(builders), MainThread, env)
    \/ \E env \in Envs : count(Len(builders), MainThread, env)
    \/ \E env \in Envs : S__len__(Len(builders), MainThread, env)
    \/ \E env \in Envs : S__iter__(Len(builders), MainThread, env)
    \/ \E env \in Envs : GetItem(Len(builders), 0, MainThread, env)

SpecFailure == InitDebug /\ [][NextFailure]_vars

\* Boosting: boost and query are called in one chain, in any order, and
\* raw() on what the chain built.
BoostMaps == {"a" :> 2, ("a" :> 2) @@ ("a__text" :> 3), "a__query_string" :> 4, "b" :> 5}
BoostedQueries == {<<Pair("a__text", "x")>>, <<Pair("a", "x")>>,
                   <<Pair("a__query_string", "x")>>, <<Pair("a__gte", 1)>>,
                   <<Pair("b__prefix", "x")>>}

NextBoost ==
    \/ \E kw \in BoostMaps : boost(Len(builders), kw)
    \/ \E kw \in BoostedQueries : query(Len(builders), kw)
    \/ \E env \in Envs : S_raw(Len(builders), WorkerThread, env)

SpecBoost == InitDebug /\ [][NextBoost]_vars

\* Paging: slices are taken in one chain, and raw() and an integer index on
\* what the chain built, against a backend with up to two matching documents.
PagingSlices == {[start |-> <<0>>, stop |-> <<10>>], [start |-> <<1>>, stop |-> <<2>>],
                 [start |-> <<>>, stop |-> <<1>>], [start |-> <<1>>, stop |-> <<>>]}
PagingEnvs == Envs \cup {[fail |-> FALSE, total |-> 2, found |-> 1..2]}

NextPaging ==
    \/ \E k \in PagingSlices : GetSlice(Len(builders), k)
    \/ \E env \in PagingEnvs : S_raw(Len(builders), WorkerThread, env)
    \/ \E k \in {0, 1}, env \in PagingEnvs : GetItem(Len(builders), k, WorkerThread, env)

SpecPaging == InitDebug /\ [][NextPaging]_vars

\* Objects: S(FakeModel), with explain and highlight called in one chain, is
\* then iterated, any number of times, against a backend with up to two
\* matching documents and a storage that finds any of the ids 1..3.
ObjectEnvs == {[fail |-> FALSE, total |-> n, found |-> ids] :
                  n \in 0..2, ids \in SUBSET (1..3)}

InitObjects == FInitState /\ SInitState("FakeModel", TRUE, SourceOrder) /\ NoField

NextObjects ==
    \/ last.op \notin Compiling /\ explain(Len(builders), TRUE)
    \/ last.op \notin Compiling /\ highlight(Len(builders), <<"a">>, EmptyDict)
    \/ \E env \in ObjectEnvs : S__iter__(Len(builders), WorkerThread, env)

SpecObjects == InitObjects /\ [][NextObjects]_vars

\* Fields: a field of any class is made with up to two keyword arguments,
\* and get_definition, prepare or convert is called on it, and convert with
\* what prepare returned.
BoolSettings == {PyBool(TRUE), PyStr(s_true), PyBool(FALSE), PyStr(<<>>), PyStr(s_false)}

FieldKwargs ==
    {EmptyDict}
    \cup {Dict1(attr, val) :
             attr \in {"include_in_all", "omit_norms", "ignore_malformed", "null_value"},
             val \in BoolSettings}
    \cup {Dict1("boost", PyStr(<<"2", ".", "5">>)), Dict1("boost", PyFloat(25, 10)),
          Dict1("boost", PyStr(s_long)), Dict1("index", PyStr(<<"n", "o">>)),
          Dict1("precision_step", PyInt(4)), Dict1("null_value", PyInt(1)),
          Dict1("include_in_all", PyBool(TRUE)) @@ Dict1("omit_norms", PyStr(<<>>))}

FieldArgs == {<<>>, <<PyStr(s_long)>>, <<PyStr(s_double)>>}

Dates == {date(year, month, 22).ret[1] : year \in {1, 2013}, month \in {1, 11}}

DateTimes ==
    {datetime(year, month, 22, hour, 34, second, microsecond).ret[1] :
        year \in {1, 2013}, month \in {1, 11}, hour \in {0, 12}, second \in {0, 56},
        microsecond \in {0, 1, 999999}}

DateStrings ==
    {<<"2", "0", "1", "3", "-", "1", "1", "-", "2", "2">>,
     <<"2", "0", "1", "3", "-", "1", "1", "-", "2", "2", "T", "1", "2", ":", "3", "4", ":", "5", "6">>,
     <<"2", "0", "1", "3", "-", "1", "1", "-", "2", "2", " ", "1", "2", ":", "3", "4", ":", "5", "6">>,
     <<"2", "0", "1", "3", "-", "1", "3", "-", "0", "1">>,
     <<"2", "0", "1", "3">>}

FieldValues ==
    {PyNone, PyInt(4), PyBool(TRUE), PyStr(<<>>), PyStr(<<"4">>)}
    \cup Dates \cup DateTimes \cup {PyStr(chars) : chars \in DateStrings}

\* BinaryField is given None, the empty string and what is not a string
FieldValuesOf(cls) ==
    IF cls = "BinaryField" THEN {value \in FieldValues : IsText(value) => Text(value) = <<>>}
    ELSE FieldValues

InitFields ==
    /\ FInitState
    /\ SInitState(None, TRUE, SourceOrder)
    /\ \E cls \in FieldClasses, args \in FieldArgs, kwargs \in FieldKwargs :
          field = [call |-> [cls |-> cls, args |-> args, kwargs |-> kwargs],
                   self |-> NewField(cls, args, kwargs)]
    /\ fieldop = [op |-> "__init__", raised |-> None]

NextFields ==
    \/ fieldop.op = "__init__" /\ GetDefinition
    \/ fieldop.op = "__init__" /\ \E value \in FieldValuesOf(field.self.cls) : Prepare(value)
    \/ fieldop.op = "__init__" /\ \E value \in FieldValuesOf(field.self.cls) : Convert(value)
    \/ ConvertPrepared

SpecFields == InitFields /\ [][NextFields]_vars

-----------------------------------------------------------------------------
(* Properties of F *)

\* C3: filter expressions are immutable: a & b, a | b and ~a leave the filter
\* document of every F that exists unchanged (their operands included), so an
\* F built earlier keeps its document through every later combination.
C3_FilterDocumentsNeverChange ==
    [][\A i \in 1..Len(fobjs) : FDoc(i)' = FDoc(i)]_vars

\* C4: combining two AND-groups with & (two OR-groups with |) yields one flat
\* group of the same connector whose operands are the operands of both groups,
\* none of them a nested group of that connector.
C4_GroupsFlatten ==
    (/\ flast.op \in {"and", "or"}
     /\ flast.a # flast.b
     /\ flast.op \in DOMAIN flast.da
     /\ flast.op \in DOMAIN flast.db)
    => LET conn == flast.op
           r    == FDoc(flast.r)
       IN  /\ conn \in DOMAIN r
           /\ Range(r[conn]) = Range(flast.da[conn]) \cup Range(flast.db[conn])
           /\ \A x \in Range(r[conn]) : conn \notin DOMAIN x

-----------------------------------------------------------------------------
(* Properties of S: the search cache and the choice of the backend *)

\* C1: whatever the response holds, the materialisations of one S object
\* (len() and iteration, in any order and number) have at most one search
\* answered between them; a clone's searches are counted for the clone.  The
\* process has settings.DEBUG set, so that raw() returns what was answered.
C1_AtMostOneSearch ==
    debug => \A b \in 1..Len(builders) : nsearch[b] <= 1

\* C7: the search of an S object runs on what its last es_builder step gives
\* whenever it has an es_builder step, whether es steps come before it or
\* after it; else on get_es(**settings) of its last es step; else on what the
\* default builder gives.
C7_BuilderFunctionWins ==
    (last.op \in {"raw", "len", "iter"} /\ last.sent # <<>>)
    => LET steps    == steplists[builders[last.self].steps]
           builders_ == {i \in 1..Len(steps) : steps[i].action = "es_builder"}
           settings == {i \in 1..Len(steps) : steps[i].action = "es"}
           used     == last.sent[1].es
       IN  IF builders_ # {}
           THEN used = [via |-> "es_builder", function |-> steps[Max(builders_)].value]
           ELSE IF settings # {}
           THEN used = [via |-> "get_es", settings |-> steps[Max(settings)].value]
           ELSE used = [via |-> "default_builder"]

\* C10: when the backend answered a raw(), raw() returns without raising, and
\* it appended an entry to the query log if and only if settings.DEBUG is set.
C10_LoggedIffDebug ==
    (last.op = "raw" /\ last.answered > 0)
    => /\ last.raised = None
       /\ last.logged <=> debug

-----------------------------------------------------------------------------
(* Properties of cloning *)

\* C2: a chaining call returns a new S object and leaves every S object there
\* was (the receiver among them) with the attributes, the step list and the
\* boost map it had; after it no two S objects share a step list or a boost
\* map, and the new S object has no cached results.
C2_BuildersIndependent ==
    [][(last' # last /\ last'.op \in ChainingMethods)
       => /\ last'.r = Len(builders) + 1
          /\ Len(builders') = Len(builders) + 1
          /\ \A b \in 1..Len(builders) :
                /\ builders'[b] = builders[b]
                /\ steplists'[builders[b].steps] = steplists[builders[b].steps]
                /\ boostmaps'[builders[b].field_boosts] = boostmaps[builders[b].field_boosts]
          /\ \A b, c \in 1..Len(builders') :
                b # c => /\ builders'[b].steps # builders'[c].steps
                         /\ builders'[b].field_boosts # builders'[c].field_boosts
          /\ builders'[last'.r]._results_cache = <<>>]_vars

\* A chaining call was made on an S object that holds cached results, and the
\* S object it returned has a step the receiver has not.
C2_ClonedFromCached ==
    /\ last.op \in ChainingMethods
    /\ builders[last.self]._results_cache # <<>>
    /\ builders[last.r]._results_cache = <<>>
    /\ Len(steplists[builders[last.r].steps]) > Len(steplists[builders[last.self].steps])

-----------------------------------------------------------------------------
(* Properties of the compiled request *)

\* C5: a query step whose keys are all field__gt/gte/lt/lte, unboosted,
\* compiles to one clause {range: {field: {action: value}}} per key, the clause
\* the filter path emits for the key: the query is the clause when there is
\* one, and {bool: {must: clauses}} when there are more.
C5_RangeQueryShape ==
    (last.op = "raw" /\ last.sent # <<>>)
    => LET steps == steplists[builders[last.self].steps]
       IN  (/\ Len(steps) = 1
            /\ steps[1].action = "query"
            /\ \A i \in 1..Len(steps[1].value) :
                  _split(steps[1].value[i].key)[2] \in RangeActions)
           => LET kw      == steps[1].value
                  clauses == [i \in 1..Len(kw) |->
                                [range |-> Dict1(_split(kw[i].key)[1],
                                                 Dict1(_split(kw[i].key)[2], kw[i].val))]]
              IN  /\ _process_filters(kw).rv = clauses
                  /\ last.sent[1].qs.query =
                        IF Len(kw) = 1 THEN clauses[1] ELSE [bool |-> [must |-> clauses]]

\* C6: the request count() sends has size 0, no from and no fields, whatever
\* the steps and the window of the S object, and count() returns the hits.total
\* of the response.
C6_CountRequest ==
    (last.op = "count" /\ last.sent # <<>>)
    => LET qs == last.sent[1].qs
       IN  /\ "size" \in DOMAIN qs /\ qs.size = 0
           /\ "from" \notin DOMAIN qs
           /\ "fields" \notin DOMAIN qs
           /\ last.answered > 0 => (last.raised = None /\ last.ret = last.total)

-----------------------------------------------------------------------------
(* Properties of the results *)

\* C8: iterating S().values_list(f), for one field name f, yields for every
\* hit a tuple of exactly one element, the hit's value of f.
C8_OneFieldOneTuple ==
    (last.op = "iter" /\ last.raised = None)
    => LET steps == steplists[builders[last.self].steps]
       IN  (/\ Len(steps) = 1
            /\ steps[1].action = "values_list"
            /\ Len(steps[1].value) = 1)
           => \A i \in 1..Len(last.ret) :
                 last.ret[i].obj = <<Val(i, steps[1].value[1])>>

\* C9: iterating S().values_list(f1, ..., fn) yields for every hit the tuple
\* of its values of f1, ..., fn in the order requested, and S().values_list()
\* the tuple of all the hit's source values in source order.
C9_TupleInRequestedOrder ==
    (last.op = "iter" /\ last.raised = None)
    => LET steps == steplists[builders[last.self].steps]
       IN  (Len(steps) = 1 /\ steps[1].action = "values_list")
           => LET fs == IF steps[1].value = <<>> THEN SourceOrder ELSE steps[1].value
              IN  \A i \in 1..Len(last.ret) :
                     last.ret[i].obj = [k \in 1..Len(fs) |-> Val(i, fs[k])]

-----------------------------------------------------------------------------
(* Properties of the query log *)

\* C11: with settings.DEBUG set, every step leaves each thread's query log as
\* it was, except that request_started in a thread empties that thread's log
\* and an operation of a thread appends, to that thread's log, one entry
\* {query, time} for every search the backend answered it: a thread's log
\* holds exactly the searches the thread ran since its last request start or,
\* without one, since the process started.
C11_LogPerThread ==
    [][\A t \in Threads :
          local'[t].queries =
             IF last'.op = "reset_search_queries" /\ last'.thread = t
             THEN <<>>
             ELSE IF last'.op \in {"raw", "len"} /\ last'.thread = t
             THEN local[t].queries
                  \o [i \in 1..last'.answered |->
                         [query |-> last'.sent[i].qs, time |-> Took]]
             ELSE local[t].queries]_vars

-----------------------------------------------------------------------------
(* Properties of highlighting *)

\* C12: when the last highlight step of an S object names real fields, the
\* highlight clause of its request asks for exactly the fields of that step,
\* and for none of an earlier highlight step.
C12_LastHighlightWins ==
    (last.op = "raw" /\ last.sent # <<>>)
    => LET steps == steplists[builders[last.self].steps]
           calls == {i \in 1..Len(steps) : steps[i].action = "highlight"}
           qs    == last.sent[1].qs
       IN  (calls # {} /\ steps[Max(calls)].value.fields # <<None>>)
           => /\ "highlight" \in DOMAIN qs
              /\ DOMAIN qs.highlight.fields = Range(steps[Max(calls)].value.fields)

-----------------------------------------------------------------------------
(* Properties of filtering *)

\* The filter document of a compiled request: none, or one
FilterDocument(b) == IF "filter" \in DOMAIN b.qs THEN <<b.qs.filter>> ELSE <<>>

\* The steps are those of B.filter(x).filter(y), x and y one argument each
\* that one call B.filter(x, y) can give in this order
IsFilterXFilterY(steps) ==
    /\ Len(steps) >= 2
    /\ \A i \in {Len(steps) - 1, Len(steps)} :
          steps[i].action = "filter" /\ Len(steps[i].value) = 1
    /\ ~steps[Len(steps)].value[1].isF

\* The steps of B.filter(x, y) for the steps of B.filter(x).filter(y)
FilterXY(steps, order) ==
    LET n == Len(steps)
        x == steps[n - 1].value[1]
        y == steps[n].value[1]
    IN  Append(SubSeq(steps, 1, n - 2),
               Step("filter", IF x.isF THEN <<x>> \o kw_items(<<y>>, order)
                              ELSE kw_items(<<x, y>>, order)))

\* C14 as stated: B.filter(x).filter(y) compiles to the filter document
\* B.filter(x, y) compiles to, for F objects and for field-action pairs x, y.
C14_FilterXFilterYIsFilterXY ==
    (last.op = "raw" /\ last.sent # <<>>)
    => LET steps == steplists[builders[last.self].steps]
       IN  IsFilterXFilterY(steps)
           => FilterDocument(last.sent[1]) =
                 FilterDocument(_build_query(FilterXY(steps, hashorder), 0, <<>>,
                                             EmptyDict, hashorder))

\* C14, amended: the filters of all filter steps are concatenated in step
\* order, and the filter document is {'and': [...]} of them when there is more
\* than one, the filter itself when there is one, and absent when there is
\* none; B.filter(x).filter(y) compiles to the filter document B.filter(x, y)
\* compiles to whenever that call records x before y, which it does unless x
\* and y are keyword arguments the dict of the call iterates as y, x.
C14_FilterStepsConcatenate ==
    (last.op = "raw" /\ last.sent # <<>>)
    => LET steps == steplists[builders[last.self].steps]
           RECURSIVE leaves(_)
           leaves(i) == IF i > Len(steps) THEN <<>>
                        ELSE IF steps[i].action = "filter"
                        THEN _process_filters(steps[i].value).rv \o leaves(i + 1)
                        ELSE leaves(i + 1)
           all == leaves(1)
           n   == Len(steps)
       IN  /\ FilterDocument(last.sent[1]) =
                 IF Len(all) > 1 THEN <<[and |-> all]>>
                 ELSE IF Len(all) = 1 THEN <<all[1]>> ELSE <<>>
           /\ (/\ IsFilterXFilterY(steps)
               /\ FilterXY(steps, hashorder)[n - 1].value
                     = <<steps[n - 1].value[1], steps[n].value[1]>>)
              => FilterDocument(last.sent[1]) =
                    FilterDocument(_build_query(FilterXY(steps, hashorder), 0, <<>>,
                                                EmptyDict, hashorder))

\* A request was sent for B.filter(x).filter(y), x an F object and y a
\* keyword argument, and its filter document is {'and': [x, y]}.
C14_TwoFilterSteps ==
    /\ last.op = "raw" /\ last.sent # <<>>
    /\ LET steps == steplists[builders[last.self].steps]
       IN  /\ IsFilterXFilterY(steps)
           /\ steps[Len(steps) - 1].value[1].isF
           /\ steps[Len(steps) - 1].value[1].filters # EmptyDict
    /\ "filter" \in DOMAIN last.sent[1].qs
    /\ "and" \in DOMAIN last.sent[1].qs.filter
    /\ Len(last.sent[1].qs.filter["and"]) = 2

-----------------------------------------------------------------------------
(* Properties of negation *)

\* The F object a is ~x: its filters are {'not': {'filter': x.filters}}, or
\* x.filters are {'not': {'filter': d}} and its filters are d
IsInverted(a, x) ==
    LET da == fheap[fobjs[a].filters]
        dx == fheap[fobjs[x].filters]
    IN  IF DOMAIN dx = {"not"}
        THEN fobjs[a].filters = dx["not"].filter
        ELSE DOMAIN da = {"not"} /\ da["not"].filter = fobjs[x].filters

\* a document {'not': {'filter': {'not': ...}}}
IsDoubleNegation(d) ==
    /\ "not" \in DOMAIN d
    /\ "not" \in DOMAIN d["not"].filter

\* C15: for every F object x, whatever its document (a leaf, an AND-group, an
\* OR-group, a negation or empty), ~~x has the document of x, and no F object
\* has a document {'not': {'filter': {'not': ...}}}.
C15_DoubleNegation ==
    /\ \A i \in 1..Len(fobjs) : ~IsDoubleNegation(FDoc(i))
    /\ flast.op = "not"
       => \A x \in 1..Len(fobjs) :
             IsInverted(flast.a, x) => FDoc(flast.r) = FDoc(x)

\* ~ was applied to ~x, x an F object with a document that is not empty and
\* not a negation, and gave an F object with the document of x.
C15_InvertedTwice ==
    /\ flast.op = "not"
    /\ \E x \in 1..Len(fobjs) :
          /\ IsInverted(flast.a, x)
          /\ flast.da = [not |-> [filter |-> FDoc(x)]]
          /\ DOMAIN FDoc(x) # {}
          /\ FDoc(flast.r) = FDoc(x)

-----------------------------------------------------------------------------
(* Properties of facets *)

\* The flags of the last facet step of steps that names the facet n
FacetFlagsOf(steps, n) ==
    LET calls == {i \in 1..Len(steps) :
                     steps[i].action = "facet" /\ n \in Range(steps[i].value.args)}
    IN  steps[Max(calls)].value.kw

\* The names of the facets the facet steps of steps request
FacetNames(steps) ==
    UNION {Range(steps[i].value.args) :
              i \in {j \in 1..Len(steps) : steps[j].action = "facet"}}

\* C16: raw() on an S object with a filter step, before or after its facet
\* steps, sends a request in which every facet requested with the filtered
\* flag has the filter document of the request as its facet_filter, and every
\* facet requested with the global flag has no facet_filter.
C16_FacetFilterIsFilter ==
    last.op = "raw"
    => LET steps == steplists[builders[last.self].steps]
       IN  \A n \in FacetNames(steps) :
              /\ (/\ FlagSet(FacetFlagsOf(steps, n), "filtered")
                  /\ \E i \in 1..Len(steps) : steps[i].action = "filter")
                 => /\ last.sent # <<>>
                    /\ "filter" \in DOMAIN last.sent[1].qs
                    /\ "facet_filter" \in DOMAIN last.sent[1].qs.facets[n]
                    /\ last.sent[1].qs.facets[n].facet_filter = last.sent[1].qs.filter
              /\ (FlagSet(FacetFlagsOf(steps, n), "global_") /\ last.sent # <<>>)
                 => "facet_filter" \notin DOMAIN last.sent[1].qs.facets[n]

-----------------------------------------------------------------------------
(* Properties of the result shape *)

\* C17: the results an S object is iterated through are ListSearchResults
\* when the last of its values_list and values_dict steps is values_list,
\* DictSearchResults when it is values_dict, or when it has no such step and
\* no type, and ObjectSearchResults when it has no such step and a type.
C17_LastShapeWins ==
    (last.op = "iter" /\ last.raised = None)
    => LET me     == builders[last.self]
           steps  == steplists[me.steps]
           shapes == {i \in 1..Len(steps) :
                         steps[i].action \in {"values_list", "values_dict"}}
       IN  /\ me._results_cache # <<>>
           /\ me._results_cache[1].cls =
                 IF shapes # {}
                 THEN IF steps[Max(shapes)].action = "values_list"
                      THEN "ListSearchResults" ELSE "DictSearchResults"
                 ELSE IF me.type = None THEN "DictSearchResults"
                 ELSE "ObjectSearchResults"

\* S().values_dict(...).values_list(...) was iterated, and its results are
\* ListSearchResults.
C17_ListAfterDict ==
    /\ last.op = "iter" /\ last.raised = None
    /\ LET me    == builders[last.self]
           steps == steplists[me.steps]
       IN  /\ me.type = None
           /\ Len(steps) >= 2
           /\ steps[Len(steps) - 1].action = "values_dict"
           /\ steps[Len(steps)].action = "values_list"
           /\ me._results_cache[1].cls = "ListSearchResults"

-----------------------------------------------------------------------------
(* Properties of field actions *)

\* The actions the filter path and the query path recognise
FilterActions == {None, "in"} \cup RangeActions
QueryActions == DOMAIN ACTION_MAP \cup {"query_string"} \cup RangeActions

\* The action suffixes of the keys of kw that are not among known
UnknownActions(kw, known) ==
    {_split(kw[i].key)[2] : i \in {j \in 1..Len(kw) : ~kw[j].isF}} \ known

\* The unknown action suffixes of the filter and query steps of steps
UnknownInSteps(steps) ==
    UNION {IF steps[i].action = "filter"
           THEN UnknownActions(steps[i].value, FilterActions)
           ELSE IF steps[i].action = "query"
           THEN UnknownActions(steps[i].value, QueryActions)
           ELSE {} : i \in 1..Len(steps)}

\* C18: F(**kw) with a key whose action suffix is unknown raises
\* InvalidFieldActionError for that suffix; raw, count, len, iteration and
\* indexing of an S object with a filter or query step that has such a key
\* raise InvalidFieldActionError, send no request and cache no results.
C18_UnknownActionFails ==
    /\ (flast.op = "F" /\ UnknownActions(flast.kw, FilterActions) # {})
       => /\ flast.raised = "InvalidFieldActionError"
          /\ flast.action \in UnknownActions(flast.kw, FilterActions)
    /\ (/\ last.op \in Compiling
        /\ UnknownInSteps(steplists[builders[last.self].steps]) # {})
       => /\ last.raised = "InvalidFieldActionError"
          /\ last.sent = <<>>
          /\ builders[last.self]._results_cache = <<>>

-----------------------------------------------------------------------------
(* Properties of backend failures *)

\* C19 as stated: an operation in which the backend's search raises has sent
\* exactly one request, raises the backend's error, appends nothing to the
\* query log, and leaves the S object with the steps it had and with no
\* cached results; a len() or an iteration of the same S object after it
\* searches again.
C19_FailedSearchLeavesNoCache ==
    [][/\ (last'.op \in Compiling /\ last'.raised = "BackendError")
          => /\ Len(last'.sent) = 1
             /\ ~last'.logged
             /\ local' = local
             /\ Len(builders') = Len(builders)
             /\ builders'[last'.self]._results_cache = <<>>
             /\ steplists'[builders'[last'.self].steps]
                   = steplists[builders[last'.self].steps]
       /\ (/\ last.op \in Compiling /\ last.raised = "BackendError"
           /\ last'.op \in {"len", "iter"} /\ last'.self = last.self)
          => last'.sent # <<>>]_vars

\* C19, amended: an operation in which the backend's search raises sends no
\* request after the one that raised (one request in all when no search was
\* answered before it), raises the backend's error, appends to the query log
\* nothing but the entries of the searches answered before, and leaves the S
\* object with the steps and the cached results it had: none that len() or
\* iteration would use when the operation is len(), iteration or count(),
\* while raw() and indexing search whatever the S object has cached; a len()
\* or an iteration of the same S object after it searches again unless the S
\* object has such cached results.
C19_FailedSearch ==
    [][/\ (last'.op \in Compiling /\ last'.raised = "BackendError")
          => /\ Len(last'.sent) = last'.answered + 1
             /\ last'.answered = 0 => (Len(last'.sent) = 1 /\ ~last'.logged)
             /\ Len(local'[last'.thread].queries)
                   = Len(local[last'.thread].queries) + last'.answered
             /\ Len(builders') = Len(builders)
             /\ builders'[last'.self]._results_cache = builders[last'.self]._results_cache
             /\ last'.op \in {"len", "iter", "count"}
                   => ~CacheTruthy(builders'[last'.self]._results_cache)
             /\ steplists'[builders'[last'.self].steps]
                   = steplists[builders[last'.self].steps]
       /\ (/\ last.op \in Compiling /\ last.raised = "BackendError"
           /\ ~CacheTruthy(builders[last.self]._results_cache)
           /\ last'.op \in {"len", "iter"} /\ last'.self = last.self)
          => last'.sent # <<>>]_vars

\* A len() of an S object with a filter step made one search, which raised,
\* and the S object has no cached results.
C19_LenFailed ==
    /\ last.op = "len" /\ last.raised = "BackendError"
    /\ Len(last.sent) = 1 /\ last.answered = 0
    /\ steplists[builders[last.self].steps] # <<>>
    /\ builders[last.self]._results_cache = <<>>

-----------------------------------------------------------------------------
(* Properties of boosting *)

\* The query clauses of a compiled request, in order
QueryClauses(qs) ==
    IF "bool" \in DOMAIN qs.query THEN qs.query.bool.must ELSE <<qs.query>>

\* The clause of the pair (key, val) with the weight the boost map gives it:
\* the entry of key, else the entry of the field of key, else none
ClauseWithBoost(field_boosts, key, val) ==
    LET field_name == _split(key)[1]
        weight == IF key \in DOMAIN field_boosts THEN Dict1(key, field_boosts[key])
                  ELSE IF field_name \in DOMAIN field_boosts
                  THEN Dict1(key, field_boosts[field_name])
                  ELSE EmptyDict
    IN  QueryOfPair(weight, key, val).doc

\* C20: every query clause of the request of an S object has the weight that
\* the boost map of the S object, as all its boost calls left it, gives the
\* key of the clause, whether boost was called before the query step or
\* after it: the entry of field__action, else the entry of field, else no
\* boost; a query_string clause has no boost.
C20_FinalBoostMap ==
    (last.op = "raw" /\ last.sent # <<>>)
    => LET me      == builders[last.self]
           steps   == steplists[me.steps]
           isQuery(st) == st.action = "query"
           queries == SelectSeq(steps, isQuery)
           clauses == QueryClauses(last.sent[1].qs)
       IN  queries # <<>>
           => /\ Len(clauses) = Len(queries)
              /\ \A i \in 1..Len(queries) :
                    LET key == queries[i].value[1].key
                        val == queries[i].value[1].val
                    IN  IF _split(key)[2] = "query_string"
                        THEN clauses[i] =
                                [query_string |-> [default_field |-> _split(key)[1],
                                                   query |-> val]]
                        ELSE clauses[i] =
                                ClauseWithBoost(boostmaps[me.field_boosts], key, val)

\* boost(a=2) was called on S().query(a__text='x') after the query step, and
\* the text clause of the request has the boost 2.
C20_BoostAfterQuery ==
    /\ last.op = "raw" /\ last.sent # <<>> /\ last.self = 3
    /\ Len(builders) >= 3
    /\ steplists[builders[2].steps] = <<Step("query", <<Pair("a__text", "x")>>)>>
    /\ steplists[builders[3].steps] = steplists[builders[2].steps]
    /\ boostmaps[builders[2].field_boosts] = EmptyDict
    /\ boostmaps[builders[3].field_boosts] = "a" :> 2
    /\ last.sent[1].qs.query = [text |-> [a |-> [boost |-> 2, query |-> "x"]]]

-----------------------------------------------------------------------------
(* Properties of paging *)

\* C21: s[a:b] returns a new S object with the steps of s, start = a (0 when
\* a is omitted), stop = b, whatever the window of s, and no cached results;
\* the request of an S object has from = start only when start is not 0 and
\* size = stop - start only when stop is set; s[k] sends the request of the
\* window [k:k+1] and, when it has a hit, returns the one element of it.
C21_Paging ==
    [][/\ last'.op = "slice"
          => LET new == builders'[last'.r]
             IN  /\ new.start = IF last'.k.start = <<>> THEN 0 ELSE last'.k.start[1]
                 /\ new.stop = last'.k.stop
                 /\ new._results_cache = <<>>
                 /\ steplists'[new.steps] = steplists[builders[last'.self].steps]
                 /\ nsearch'[last'.r] = 0
       /\ (last'.op = "raw" /\ last'.sent # <<>>)
          => LET me == builders'[last'.self]
                 qs == last'.sent[1].qs
             IN  /\ "from" \in DOMAIN qs <=> me.start # 0
                 /\ "from" \in DOMAIN qs => qs.from = me.start
                 /\ "size" \in DOMAIN qs <=> me.stop # <<>>
                 /\ "size" \in DOMAIN qs => qs.size = me.stop[1] - me.start
       /\ (last'.op = "getitem" /\ last'.sent # <<>>)
          => LET qs == last'.sent[1].qs
             IN  /\ "from" \in DOMAIN qs <=> last'.k # 0
                 /\ "from" \in DOMAIN qs => qs.from = last'.k
                 /\ "size" \in DOMAIN qs /\ qs.size = 1
                 /\ (last'.answered > 0 /\ last'.total[1] > last'.k)
                    => /\ last'.raised = None
                       /\ Len(last'.ret) = 1
                       /\ last'.ret[1]._score = <<last'.k + 1>>
                       /\ last'.ret[1].obj.id = last'.k + 1]_vars

\* raw() on S()[1:2][0:10] sent a request with size 10 and no from.
C21_SecondWindowWins ==
    /\ last.op = "raw" /\ last.sent # <<>>
    /\ Len(builders) >= 3 /\ last.self = 3
    /\ builders[2].start = 1 /\ builders[2].stop = <<2>>
    /\ builders[3].start = 0 /\ builders[3].stop = <<10>>
    /\ "from" \notin DOMAIN last.sent[1].qs
    /\ last.sent[1].qs.size = 10

-----------------------------------------------------------------------------
(* Properties of the object results *)

\* The metadata a hit gives the object yielded for it
MetadataOf(hit) ==
    [_score |-> <<hit._score>>, _type |-> hit._type,
     _explanation |-> IF "_explanation" \in DOMAIN hit THEN hit._explanation
                      ELSE EmptyDict,
     _highlight |-> IF "highlight" \in DOMAIN hit THEN hit.highlight ELSE EmptyDict]

\* C22: iterating an S object with a type and no values_list or values_dict
\* step yields, in the order of the hits, one object for every hit whose id
\* is the id of an object the lookup found, and none for the other hits; the
\* object has the id of its hit and the score, the doctype, the explanation
\* (or {}) and the highlight (or {}) of its hit; the lookup is the one made
\* for the ids of the hits when the results were built, also when the S
\* object is iterated again.
C22_ObjectsOfHits ==
    [][(last'.op = "iter" /\ last'.raised = None)
       => LET rc     == builders'[last'.self]._results_cache[1]
              hits   == rc.results.hits.hits
              found(i) == [id |-> int(hits[i]._id)] \in rc.objects
              keep   == SelectSeq([i \in 1..Len(hits) |-> i], found)
          IN  /\ rc.cls = "ObjectSearchResults"
              /\ rc.ids = [i \in 1..Len(hits) |-> int(hits[i]._id)]
              /\ \A o \in rc.objects : o.id \in Range(rc.ids)
              /\ last'.ret = [k \in 1..Len(keep) |->
                                [obj |-> [id |-> int(hits[keep[k]]._id)]]
                                @@ MetadataOf(hits[keep[k]])]
              /\ last'.sent # <<>>
                 => rc.results = Response(last'.sent[1].qs, last'.total[1])
              /\ last'.sent = <<>>
                 => rc = builders[last'.self]._results_cache[1]]_vars

\* Iteration skipped the first of two hits, whose object the lookup did not
\* find, and yielded the object of the second with the explanation and the
\* highlight of that hit.
C22_SkippedHit ==
    /\ last.op = "iter" /\ last.raised = None
    /\ builders[last.self]._results_cache[1].ids = <<1, 2>>
    /\ Len(last.ret) = 1
    /\ last.ret[1].obj = [id |-> 2]
    /\ last.ret[1]._score = <<2>>
    /\ last.ret[1]._explanation = [value |-> 2]
    /\ DOMAIN last.ret[1]._highlight = {"a"}

-----------------------------------------------------------------------------
(* Properties of the search fields *)

DateOf(d) == [t |-> "date", year |-> d.year, month |-> d.month, day |-> d.day]

\* C24: DateField.convert(DateField.prepare(d)) is d for every date d;
\* DateTimeField.convert(DateTimeField.prepare(t)) is t for every datetime t,
\* whatever its microsecond; DateField.convert of the string of a datetime
\* is the date of the datetime; and convert(None) is None in every class.
C24_DatesRoundTrip ==
    fieldop.op = "convert"
    => /\ (/\ fieldop.prepared # <<>>
           /\ field.self.cls = "DateField"
           /\ fieldop.prepared[1].t = "date")
          => fieldop.ret = fieldop.prepared
       /\ (/\ fieldop.prepared # <<>>
           /\ field.self.cls = "DateTimeField"
           /\ fieldop.prepared[1].t = "datetime")
          => fieldop.ret = fieldop.prepared
       /\ (/\ fieldop.prepared # <<>>
           /\ field.self.cls = "DateField"
           /\ fieldop.prepared[1].t = "datetime")
          => fieldop.ret = <<DateOf(fieldop.prepared[1])>>
       /\ fieldop.value = <<PyNone>> => fieldop.ret = <<PyNone>>

-----------------------------------------------------------------------------
(* Properties of compilation as a whole *)

\* Every key of kw, and of the mappings under its 'or_' keys, has a filter
\* action
RECURSIVE RecognisedFilters(_)
RecognisedFilters(kw) ==
    \A i \in 1..Len(kw) :
        \/ kw[i].isF
        \/ IF _split(kw[i].key)[1] = "or_" THEN RecognisedFilters(kw[i].val)
           ELSE _split(kw[i].key)[2] \in FilterActions

RecognisedQueries(kw) ==
    \A i \in 1..Len(kw) : _split(kw[i].key)[2] \in QueryActions

\* C25: raw() on an S object whose filter, query and demote steps have
\* recognised field actions only builds the request and sends it: building
\* raises nothing, also when the S object has a demote step and no query
\* step, or a facet step with the filtered flag and no filter step.
C25_CompilationIsTotal ==
    (/\ last.op = "raw"
     /\ \A i \in 1..Len(steplists[builders[last.self].steps]) :
           LET step == steplists[builders[last.self].steps][i]
           IN  /\ step.action = "filter" => RecognisedFilters(step.value)
               /\ step.action = "query" => RecognisedQueries(step.value)
               /\ step.action = "demote" => RecognisedQueries(step.value.kw))
    => last.sent # <<>>

=============================================================================
